---- MODULE Spec2Model ----
(***************************************************************************)
(* Model of the Visuvia MCTP controller: the frame codec                   *)
(* (visuvia/utils/mctp.py), the channel data registry                      *)
(* (visuvia/utils/data_registry.py) and the controller finite state        *)
(* machine CommTask (visuvia/mctp_comm.py) running on its own thread next  *)
(* to a foreground thread that issues the orders (main.py).                *)
(***************************************************************************)
EXTENDS Integers, Sequences, FiniteSets, TLC

(***************************************************************************)
(* Bounds of the model.                                                    *)
(***************************************************************************)
\* calls of the API the foreground thread makes in one run, those that find
\* nothing to do not counted
MaxCmds == 3
\* non-empty buffers the performer delivers in one run
MaxRx == 2
\* buffers a retry loop reads before its deadline has certainly passed
MaxIter == 2

(***************************************************************************)
(* Frame codec: visuvia/utils/mctp.py                                      *)
(***************************************************************************)
EOM == <<36, 37, 38>>
EOM_SIZE == 3
HEADER_SIZE == 8
DATAINFO_SIZE == 4
MIN_FRAME_SIZE == HEADER_SIZE + EOM_SIZE
MAX_CHANNELS == 32

\* FrameType(value).name.lower(); "ValueError" when value is no member
FrameType(v) ==
    CASE v = 0 -> "none"
      [] v = 1 -> "sync"
      [] v = 2 -> "sync_resp"
      [] v = 3 -> "ack"
      [] v = 4 -> "request"
      [] v = 5 -> "data"
      [] v = 6 -> "stop"
      [] v = 7 -> "drop"
      [] OTHER -> "ValueError"

\* _string_to_frame_type(...).value
FrameTypeValue(s) ==
    CASE s = "sync" -> 1
      [] s = "sync_resp" -> 2
      [] s = "ack" -> 3
      [] s = "request" -> 4
      [] s = "data" -> 5
      [] s = "stop" -> 6
      [] s = "drop" -> 7
      [] OTHER -> 0

\* DataType members, by wire value
DataType(v) ==
    CASE v = 0 -> "CHAR"
      [] v = 1 -> "INT8"
      [] v = 2 -> "INT16"
      [] v = 3 -> "INT32"
      [] v = 4 -> "UINT8"
      [] v = 5 -> "UINT16"
      [] v = 6 -> "UINT32"
      [] v = 7 -> "FLOAT8"
      [] v = 8 -> "FLOAT16"
      [] v = 9 -> "FLOAT32"
      [] OTHER -> "ValueError"

\* _parse_datatype: the struct format code and the element width
_parse_datatype(t) ==
    CASE t = "CHAR" -> [format_code |-> "s", var_size |-> 1]
      [] t = "INT8" -> [format_code |-> "b", var_size |-> 1]
      [] t = "INT16" -> [format_code |-> "h", var_size |-> 2]
      [] t = "INT32" -> [format_code |-> "i", var_size |-> 4]
      [] t = "UINT8" -> [format_code |-> "B", var_size |-> 1]
      [] t = "UINT16" -> [format_code |-> "H", var_size |-> 2]
      [] t = "UINT32" -> [format_code |-> "I", var_size |-> 4]
      [] t = "FLOAT8" -> [format_code |-> "B", var_size |-> 1]
      [] t = "FLOAT16" -> [format_code |-> "H", var_size |-> 2]
      [] t = "FLOAT32" -> [format_code |-> "f", var_size |-> 4]

\* Python's s[a:b] for 0 <= a, 0 <= b on a sequence (clipped to the length)
Slice(s, a, b) ==
    LET hi == IF b < Len(s) THEN b ELSE Len(s)
    IN IF a >= hi THEN <<>> ELSE SubSeq(s, a + 1, hi)

\* little-endian unsigned value of a byte sequence
RECURSIVE LeUnsigned(_)
LeUnsigned(bs) ==
    IF bs = <<>> THEN 0 ELSE Head(bs) + 256 * LeUnsigned(Tail(bs))

RECURSIVE Pow2(_)
Pow2(n) == IF n = 0 THEN 1 ELSE 2 * Pow2(n - 1)

\* little-endian two's complement value of a byte sequence
LeSigned(bs) ==
    LET n == Len(bs)
        top == IF bs[n] >= 128 THEN bs[n] - 256 ELSE bs[n]
    IN LeUnsigned(SubSeq(bs, 1, n - 1)) + Pow2(8 * (n - 1)) * top

\* struct.unpack of one element with the given format code. The checker's
\* integers are 32 bits wide, so an unsigned 32-bit integer is kept as its two
\* 16-bit halves and a float32 as the two halves of its IEEE-754 bit pattern.
UnpackOne(code, bs) ==
    CASE code \in {"b", "h", "i"} -> LeSigned(bs)
      [] code \in {"B", "H"} -> LeUnsigned(bs)
      [] code = "I" -> [u32lo |-> LeUnsigned(SubSeq(bs, 1, 2)),
                        u32hi |-> LeUnsigned(SubSeq(bs, 3, 4))]
      [] code = "f" -> [f32lo |-> LeUnsigned(SubSeq(bs, 1, 2)),
                        f32hi |-> LeUnsigned(SubSeq(bs, 3, 4))]

\* the w low bytes of an integer, little-endian (two's complement)
RECURSIVE LeBytes(_, _)
LeBytes(u, w) ==
    IF w = 0 THEN <<>> ELSE <<u % 256>> \o LeBytes(u \div 256, w - 1)

\* struct.pack of one element with the given format code and width
PackOne(code, w, v) ==
    CASE code \in {"b", "h", "i", "B", "H"} -> LeBytes(v, w)
      [] code = "I" -> LeBytes(v.u32lo, 2) \o LeBytes(v.u32hi, 2)
      [] code = "f" -> LeBytes(v.f32lo, 2) \o LeBytes(v.f32hi, 2)
      [] code = "s" -> <<v>>

\* bytes.decode("utf-8"): the code points, or <<-1>> for UnicodeDecodeError
IsCont(b) == b >= 128 /\ b <= 191

RECURSIVE Utf8Decode(_)
Utf8Decode(bs) ==
    IF bs = <<>> THEN <<>>
    ELSE LET b0 == bs[1]
             n == CASE b0 < 128 -> 1
                    [] b0 >= 194 /\ b0 <= 223 -> 2
                    [] b0 >= 224 /\ b0 <= 239 -> 3
                    [] b0 >= 240 /\ b0 <= 244 -> 4
                    [] OTHER -> 0
             lo2 == CASE b0 = 224 -> 160 [] b0 = 240 -> 144 [] OTHER -> 128
             hi2 == CASE b0 = 237 -> 159 [] b0 = 244 -> 143 [] OTHER -> 191
             wellformed ==
                 /\ n > 0
                 /\ Len(bs) >= n
                 /\ n >= 2 => (bs[2] >= lo2 /\ bs[2] <= hi2)
                 /\ \A i \in 3..n : IsCont(bs[i])
         IN IF ~wellformed THEN <<-1>>
            ELSE LET cp == CASE n = 1 -> b0
                             [] n = 2 -> (b0 - 192) * 64 + (bs[2] - 128)
                             [] n = 3 -> (b0 - 224) * 4096 + (bs[2] - 128) * 64
                                         + (bs[3] - 128)
                             [] n = 4 -> (b0 - 240) * 262144
                                         + (bs[2] - 128) * 4096
                                         + (bs[3] - 128) * 64 + (bs[4] - 128)
                     rest == Utf8Decode(Slice(bs, n, Len(bs)))
                 IN IF rest = <<-1>> THEN <<-1>> ELSE <<cp>> \o rest

\* A Python dict kept in insertion order: a sequence of [id, val] records
DictKeys(d) == {d[i].id : i \in 1..Len(d)}

DictSet(d, k, v) ==
    IF k \in DictKeys(d)
    THEN [i \in 1..Len(d) |-> IF d[i].id = k THEN [id |-> k, val |-> v] ELSE d[i]]
    ELSE Append(d, [id |-> k, val |-> v])

\* MCTPFrame.__init__
MCTPFrame ==
    [frame_type |-> "None", data_size |-> 0, n_of_channels |-> 0,
     data_channels |-> <<>>, text_channels |-> <<>>]

\* MCTPFrame._convert_data: [exc, data]; for CHAR data is the one bytes object
_convert_data(raw_data, datatype_identifier) ==
    IF DataType(datatype_identifier) = "ValueError"
    THEN [exc |-> "EBADDATATYPE", data |-> <<>>]
    ELSE LET fmt == _parse_datatype(DataType(datatype_identifier))
             n_of_samples == Len(raw_data) \div fmt.var_size
         IN IF fmt.format_code = "s"
            THEN [exc |-> "ok", data |-> <<raw_data>>]
            ELSE IF n_of_samples * fmt.var_size # Len(raw_data)
            THEN [exc |-> "EBADDATATYPE", data |-> <<>>]
            ELSE [exc |-> "ok",
                  data |-> [i \in 1..n_of_samples |->
                               UnpackOne(fmt.format_code,
                                         SubSeq(raw_data,
                                                (i - 1) * fmt.var_size + 1,
                                                i * fmt.var_size))]]

\* ParseChannels with the fault of a size that is not checked against the
\* header before the channel is converted
RECURSIVE ParseChannelsSizeUnchecked(_, _, _, _)
ParseChannelsSizeUnchecked(f, mctp_data, total_data_read, datainfo_beg) ==
    IF ~(total_data_read < f.data_size) THEN [frame |-> f, exc |-> "ok"]
    ELSE
      LET datainfo_end == datainfo_beg + DATAINFO_SIZE
          info == Slice(mctp_data, datainfo_beg, datainfo_end)
      IN IF Len(info) # DATAINFO_SIZE THEN [frame |-> f, exc |-> "EBADDATA"]
         ELSE
           LET ch_id == info[1]
               ch_data_size == info[2] + 256 * info[3]
               ch_datatype_identifier == info[4]
               total == total_data_read + DATAINFO_SIZE + ch_data_size
               ch_raw_data ==
                   Slice(mctp_data, datainfo_end, datainfo_end + ch_data_size)
               conv == _convert_data(ch_raw_data, ch_datatype_identifier)
           IN IF conv.exc # "ok" THEN [frame |-> f, exc |-> "EBADDATA"]
              ELSE IF DataType(ch_datatype_identifier) = "CHAR"
              THEN LET text == Utf8Decode(conv.data[1])
                   IN IF text = <<-1>>
                      THEN [frame |-> f, exc |-> "UnicodeDecodeError"]
                      ELSE ParseChannelsSizeUnchecked(
                             [f EXCEPT !.text_channels = DictSet(@, ch_id, text)],
                             mctp_data, total,
                             datainfo_beg + ch_data_size + DATAINFO_SIZE)
              ELSE ParseChannelsSizeUnchecked(
                     [f EXCEPT !.data_channels = DictSet(@, ch_id, conv.data)],
                     mctp_data, total,
                     datainfo_beg + ch_data_size + DATAINFO_SIZE)

\* the channel loop of MCTPFrame.parse for a DATA frame
RECURSIVE ParseChannels(_, _, _, _)
ParseChannels(f, mctp_data, total_data_read, datainfo_beg) ==
    IF ~(total_data_read < f.data_size) THEN [frame |-> f, exc |-> "ok"]
    ELSE
      LET datainfo_end == datainfo_beg + DATAINFO_SIZE
          info == Slice(mctp_data, datainfo_beg, datainfo_end)
      IN IF Len(info) # DATAINFO_SIZE THEN [frame |-> f, exc |-> "EBADDATA"]
         ELSE
           LET ch_id == info[1]
               ch_data_size == info[2] + 256 * info[3]
               ch_datatype_identifier == info[4]
               total == total_data_read + DATAINFO_SIZE + ch_data_size
               ch_raw_data ==
                   Slice(mctp_data, datainfo_end, datainfo_end + ch_data_size)
               conv == _convert_data(ch_raw_data, ch_datatype_identifier)
           IN IF total > f.data_size THEN [frame |-> f, exc |-> "EUNMATCHSIZE"]
              ELSE IF conv.exc # "ok" THEN [frame |-> f, exc |-> "EBADDATA"]
              ELSE IF DataType(ch_datatype_identifier) = "CHAR"
              THEN LET text == Utf8Decode(conv.data[1])
                   IN IF text = <<-1>>
                      THEN [frame |-> f, exc |-> "UnicodeDecodeError"]
                      ELSE ParseChannels(
                             [f EXCEPT !.text_channels = DictSet(@, ch_id, text)],
                             mctp_data, total,
                             datainfo_beg + ch_data_size + DATAINFO_SIZE)
              ELSE ParseChannels(
                     [f EXCEPT !.data_channels = DictSet(@, ch_id, conv.data)],
                     mctp_data, total,
                     datainfo_beg + ch_data_size + DATAINFO_SIZE)

\* parse with the fault of a limit that is one channel too high
parse_one_more_channel(f, raw_msg) ==
    LET f0 == [f EXCEPT !.text_channels = <<>>, !.data_channels = <<>>]
    IN IF Len(raw_msg) < MIN_FRAME_SIZE THEN [frame |-> f0, exc |-> "ELESSMIN"]
       ELSE
         LET type_identifier == raw_msg[1]
             f1 == [f0 EXCEPT !.data_size = raw_msg[2] + 256 * raw_msg[3]]
         IN IF FrameType(type_identifier) = "ValueError"
            THEN [frame |-> f1, exc |-> "EBADTYPE"]
            ELSE
              LET f2 == [f1 EXCEPT !.frame_type = FrameType(type_identifier)]
                  mctp_data ==
                      Slice(raw_msg, HEADER_SIZE, HEADER_SIZE + f2.data_size)
              IN IF f2.frame_type \notin {"sync_resp", "data"}
                 THEN [frame |-> f2, exc |-> "ok"]
                 ELSE IF Len(mctp_data) = 0
                 THEN [frame |-> f2, exc |-> "struct.error"]
                 ELSE
                   LET f3 == [f2 EXCEPT !.n_of_channels = mctp_data[1]]
                   IN IF f3.n_of_channels > MAX_CHANNELS + 1
                      THEN [frame |-> f3, exc |-> "ECHEXCEED"]
                      ELSE IF f3.frame_type = "sync_resp"
                      THEN [frame |-> f3, exc |-> "ok"]
                      ELSE ParseChannels(f3, mctp_data, 1, 1)

\* MCTPFrame.parse on the frame object f: the object as parse leaves it and
\* the exception it raised ("ok" when it returned). "struct.error" and
\* "UnicodeDecodeError" are not MCTPParseError.
parse(f, raw_msg) ==
    LET f0 == [f EXCEPT !.text_channels = <<>>, !.data_channels = <<>>]
    IN IF Len(raw_msg) < MIN_FRAME_SIZE THEN [frame |-> f0, exc |-> "ELESSMIN"]
       ELSE
         LET type_identifier == raw_msg[1]
             f1 == [f0 EXCEPT !.data_size = raw_msg[2] + 256 * raw_msg[3]]
         IN IF FrameType(type_identifier) = "ValueError"
            THEN [frame |-> f1, exc |-> "EBADTYPE"]
            ELSE
              LET f2 == [f1 EXCEPT !.frame_type = FrameType(type_identifier)]
                  mctp_data ==
                      Slice(raw_msg, HEADER_SIZE, HEADER_SIZE + f2.data_size)
              IN IF f2.frame_type \notin {"sync_resp", "data"}
                 THEN [frame |-> f2, exc |-> "ok"]
                 ELSE IF Len(mctp_data) = 0
                 THEN [frame |-> f2, exc |-> "struct.error"]
                 ELSE
                   LET f3 == [f2 EXCEPT !.n_of_channels = mctp_data[1]]
                   IN IF f3.n_of_channels > MAX_CHANNELS
                      THEN [frame |-> f3, exc |-> "ECHEXCEED"]
                      ELSE IF f3.frame_type = "sync_resp"
                      THEN [frame |-> f3, exc |-> "ok"]
                      ELSE ParseChannels(f3, mctp_data, 1, 1)

\* serialize_channel_data
RECURSIVE serialize_channel_data(_, _)
serialize_channel_data(data_type, data) ==
    IF data = <<>> THEN <<>>
    ELSE LET fmt == _parse_datatype(data_type)
         IN PackOne(fmt.format_code, fmt.var_size, Head(data))
            \o serialize_channel_data(data_type, Tail(data))

DataTypeValue(t) == CHOOSE v \in 0..9 : DataType(v) = t

\* the channel loop of serialize_frame: channels is a sequence of
\* <<data type, samples>>
RECURSIVE SerializeChannels(_, _)
SerializeChannels(channels, ch_id) ==
    IF channels = <<>> THEN <<>>
    ELSE LET ser == serialize_channel_data(Head(channels)[1], Head(channels)[2])
         IN <<ch_id % 256>> \o LeBytes(Len(ser), 2)
            \o <<DataTypeValue(Head(channels)[1])>> \o ser
            \o SerializeChannels(Tail(channels), ch_id + 1)

\* serialize_frame with the fault of channel ids that start at 1, as its
\* docstring has it
serialize_frame_ids_from_one(frame_type, data_channels) ==
    LET mctp_data ==
            CASE frame_type = "sync_resp" -> <<Len(data_channels)>>
              [] frame_type = "data" ->
                   <<Len(data_channels)>> \o SerializeChannels(data_channels, 1)
              [] OTHER -> <<>>
    IN <<FrameTypeValue(frame_type)>> \o LeBytes(Len(mctp_data), 2)
       \o <<5, 5, 5, 5, 5>> \o mctp_data \o EOM

\* serialize_frame(frame_type, data_channels)
serialize_frame(frame_type, data_channels) ==
    LET mctp_data ==
            CASE frame_type = "sync_resp" -> <<Len(data_channels)>>
              [] frame_type = "data" ->
                   <<Len(data_channels)>> \o SerializeChannels(data_channels, 0)
              [] OTHER -> <<>>
    IN <<FrameTypeValue(frame_type)>> \o LeBytes(Len(mctp_data), 2)
       \o <<5, 5, 5, 5, 5>> \o mctp_data \o EOM

(***************************************************************************)
(* Buffers the performer may deliver to the controller.                    *)
(***************************************************************************)
\* listen_msg returned None
NoResponse == <<-1>>
\* read_until ran into the port timeout with nothing read
EmptyRead == <<>>

SyncRespOf(n) == <<2, 1, 0, 5, 5, 5, 5, 5, n>> \o EOM

B_SyncResp == serialize_frame("sync_resp", <<0, 0>>)
B_SyncRespOne == serialize_frame("sync_resp", <<0>>)
B_SyncRespTooMany == SyncRespOf(MAX_CHANNELS + 1)
B_SyncRespNoPayload == <<2, 0, 0, 5, 5, 5, 5, 5>> \o EOM
B_Stop == serialize_frame("stop", <<>>)
B_Drop == serialize_frame("drop", <<>>)
B_Data == serialize_frame("data", <<<<"INT8", <<1, 2>>>>, <<"CHAR", <<97>>>>>>)
B_DataUnknownChannel ==
    <<5, 6, 0, 5, 5, 5, 5, 5, 1, 7, 1, 0, 1, 9>> \o EOM
B_DataNoSamples == serialize_frame("data", <<<<"INT8", <<>>>>>>)
B_DataBadUtf8 == serialize_frame("data", <<<<"CHAR", <<255>>>>>>)
B_BadKind == <<9, 0, 0, 5, 5, 5, 5, 5>> \o EOM

Buffers ==
    {B_SyncResp, B_SyncRespTooMany, B_SyncRespNoPayload, B_Stop, B_Drop,
     B_Data, B_DataUnknownChannel, B_DataNoSamples, B_DataBadUtf8, B_BadKind}

\* the exceptions of parse that are MCTPParseError
ParseErrors == {"ELESSMIN", "EUNMATCHSIZE", "EBADTYPE", "EBADDATA", "ECHEXCEED"}

(***************************************************************************)
(* State: the CommTask object, its thread, the registry, the observer and  *)
(* the foreground thread.                                                  *)
(***************************************************************************)
VARIABLES
    state,            \* CommTask.state
    running,          \* CommTask.running
    flag_send_req,    \* CommTask.flag_send_req
    flag_send_stop,   \* CommTask.flag_send_stop
    flag_send_drop,   \* CommTask.flag_send_drop
    frames_received,  \* CommTask.frames_received
    bytes_received,   \* CommTask.bytes_received
    timeouts,         \* CommTask.timeouts.timeouts (0 is None)
    has_gui,          \* CommTask.connman_gui is not None
    fsm_pc,           \* where CommTask.thread is in __run, or what ended it
    received_frame,   \* the local received_frame of the loop being run
    iter,             \* iterations the running retry loop has made
    fg_pc,            \* where the foreground thread is in the API call it made
    cmds,             \* API calls made that found something to do; in
                      \* RegistrySpec the calls of the registry
    channels,         \* DataRegistry.channels
    start_time_ref,   \* DataRegistry.start_time_ref
    obs_queue,        \* the events handed to connman_gui.enqueue_update
    sent,             \* Ack and Request frames written to the transport
    rx_count,         \* non-empty buffers the performer has delivered
    now,              \* time.time(); it moves in RegistrySpec and OneRefSpec
    cursor,           \* channels of the frame that append_data has finished
    relative_time,    \* the local relative_time of append_data
    codec,            \* CodecSpec: the frame being serialized and parsed
    disk              \* SaveSpec: the files save_data has written

vars ==
    <<state, running, flag_send_req, flag_send_stop, flag_send_drop,
      frames_received, bytes_received, timeouts, has_gui, fsm_pc,
      received_frame, iter, fg_pc, cmds, channels, start_time_ref,
      obs_queue, sent, rx_count, now, cursor, relative_time, codec,
      disk>>

commtask == <<state, running, flag_send_req, flag_send_stop, flag_send_drop>>
counters == <<frames_received, bytes_received>>
registry == <<channels, start_time_ref>>
fsm_locals == <<received_frame, iter, cursor, relative_time, timeouts>>

CommTaskState == {"IDLE", "SYNC", "CONNECTED", "TRANSFER"}

\* positions of the thread in which it holds the condition's lock
LockedPcs ==
    {"handler", "drop_loop", "stop_loop", "body", "sync_loop", "sync_notify",
     "append_data", "append_y", "append_text"}

\* the exceptions that end the thread when nobody catches them; fsm_pc keeps
\* the name of the one that did
Exceptions ==
    {"SerialCtrlError", "RuntimeError", "struct.error", "UnicodeDecodeError",
     "KeyError", "ZeroDivisionError"}

\* the thread has been started and has not finished
ThreadAlive == fsm_pc \notin {"none", "done"} \cup Exceptions

\* the condition's lock is free for the foreground thread
LockFree == fsm_pc \notin LockedPcs

\* threading.Condition.notify as the waiting thread sees it: wait() returns
\* (re-acquiring and releasing the lock at the end of the with block) and the
\* thread is back at the test of its while loop
Notify(pc) == IF pc = "wait" THEN "loop" ELSE pc

\* TimeoutHandler.__init__: the deadline of each kind of frame, 0 where the
\* code has None (no deadline of the program is 0 seconds)
TimeoutHandler == [t \in {"sync", "ping", "stop", "drop"} |-> 0]

\* TimeoutHandler.set_timeout
set_timeout(tab, frame_type, timeout) == [tab EXCEPT ![frame_type] = timeout]

\* TimeoutHandler.check_timeout when the deadline has passed: the entry is
\* set to None and the call returns True
TimeoutExpired(tab, frame_type) == [tab EXCEPT ![frame_type] = 0]

\* connman_gui.enqueue_update(order, arg)
enqueue_update(q, order, arg) ==
    IF has_gui THEN Append(q, [order |-> order, arg |-> arg]) ELSE q

\* Sent with the fault of a frame that is written twice
SentTwice(kind) == [sent EXCEPT ![kind] = @ + 2]

\* serial_ctrl.send(frame) that did not raise
Sent(kind) == [sent EXCEPT ![kind] = @ + 1]

\* DataRegistry.add_channel
add_channel(chs, ch_id) ==
    [i \in DOMAIN chs \cup {ch_id} |->
        IF i = ch_id
        THEN [recv_time |-> 0, x_data |-> <<>>, y_data |-> <<>>, text |-> <<>>]
        ELSE chs[i]]

\* AddChannels with the fault of a loop that stops one channel short
RECURSIVE AddChannelsButLast(_, _, _)
AddChannelsButLast(chs, i, n) ==
    IF i >= n - 1 THEN chs ELSE AddChannelsButLast(add_channel(chs, i), i + 1, n)

\* the loop of __run that calls add_channel(ch_id=i) for i in range(n)
RECURSIVE AddChannels(_, _, _)
AddChannels(chs, i, n) ==
    IF i >= n THEN chs ELSE AddChannels(add_channel(chs, i), i + 1, n)

\* CommTask.__init__ and DataRegistry.__init__
SessionInit ==
    /\ state = "IDLE"
    /\ running = FALSE
    /\ flag_send_req = FALSE
    /\ flag_send_stop = FALSE
    /\ flag_send_drop = FALSE
    /\ frames_received = 0
    /\ bytes_received = 0
    /\ timeouts = TimeoutHandler
    /\ has_gui \in BOOLEAN
    /\ fsm_pc = "none"
    /\ received_frame = MCTPFrame
    /\ iter = 0
    /\ fg_pc = "idle"
    /\ cmds = 0
    /\ channels = <<>>
    /\ start_time_ref = 0
    /\ obs_queue = <<>>
    /\ sent = [k \in {"ack", "request"} |-> 0]
    /\ rx_count = 0
    /\ now = 1
    /\ cursor = 0
    /\ relative_time = 0
    /\ disk = [files |-> {}, exc |-> "ok"]

\* no frame is being serialized or parsed on its own
CodecIdle ==
    [pc |-> "off", frame_type |-> "None", data_channels |-> <<>>,
     raw_msg |-> <<>>, frame |-> MCTPFrame, exc |-> "ok"]

Init == SessionInit /\ codec = CodecIdle

(***************************************************************************)
(* The foreground thread: the API of CommTask as main.py calls it.  A call *)
(* that takes the condition's lock waits until the thread has released it. *)
(***************************************************************************)
\* the foreground thread is between two calls and may make another; cmds
\* counts the calls that did not return at once
CanCall == fg_pc = "idle" /\ cmds < MaxCmds

\* CommTask.start, called before any thread of the task exists or after
\* stop() has joined it
start ==
    /\ fg_pc = "idle"
    /\ fsm_pc \in {"none", "done"}
    /\ running' = TRUE
    /\ state' = "IDLE"
    /\ fsm_pc' = "loop"
    /\ UNCHANGED <<flag_send_req, flag_send_stop, flag_send_drop, counters,
                   fsm_locals, has_gui, codec, disk, fg_pc, cmds, registry,
                   obs_queue, sent, rx_count, now>>

\* CommTask.stop, line 151: running = False
stop ==
    /\ CanCall
    /\ fsm_pc # "none"
    /\ running' = FALSE
    /\ fg_pc' = "stop_set_state"
    /\ cmds' = cmds + 1
    /\ UNCHANGED <<state, flag_send_req, flag_send_stop, flag_send_drop,
                   counters, fsm_locals, has_gui, codec, disk, fsm_pc,
                   registry, obs_queue, sent, rx_count, now>>

\* CommTask.stop, line 152: _set_state(IDLE)
stop_set_state ==
    /\ fg_pc = "stop_set_state"
    /\ LockFree
    /\ state' = "IDLE"
    /\ fsm_pc' = Notify(fsm_pc)
    /\ fg_pc' = "stop_join"
    /\ UNCHANGED <<running, flag_send_req, flag_send_stop, flag_send_drop,
                   counters, fsm_locals, has_gui, codec, disk, cmds,
                   registry, obs_queue, sent, rx_count, now>>

\* CommTask.stop, lines 153-154: thread.join() returns once the thread has
\* finished, then send_drop()
stop_join ==
    /\ fg_pc = "stop_join"
    /\ ~ThreadAlive
    /\ flag_send_drop' = TRUE
    /\ fg_pc' = "idle"
    /\ UNCHANGED <<state, running, flag_send_req, flag_send_stop, counters,
                   fsm_locals, has_gui, codec, disk, fsm_pc, cmds, registry,
                   obs_queue, sent, rx_count, now>>

\* start_sync with the fault of a state that is set whatever it was
start_sync_unchecked ==
    /\ CanCall
    /\ fsm_pc # "none"
    /\ obs_queue' = enqueue_update(obs_queue, "STATUS_SYNCING", 0)
    /\ fg_pc' = "start_sync_set_state"
    /\ cmds' = cmds + 1
    /\ UNCHANGED <<commtask, counters, fsm_locals, has_gui, codec, disk,
                   fsm_pc, registry, sent, rx_count, now>>

\* CommTask.start_sync, lines 163-165: the observer is told, the state is read
start_sync ==
    /\ CanCall
    /\ fsm_pc # "none"
    /\ obs_queue' = enqueue_update(obs_queue, "STATUS_SYNCING", 0)
    /\ fg_pc' = IF state = "IDLE" THEN "start_sync_set_state" ELSE "idle"
    /\ cmds' = cmds + 1
    /\ UNCHANGED <<commtask, counters, fsm_locals, has_gui, codec, disk,
                   fsm_pc, registry, sent, rx_count, now>>

\* CommTask.start_sync, line 166: _set_state(SYNC)
start_sync_set_state ==
    /\ fg_pc = "start_sync_set_state"
    /\ LockFree
    /\ state' = "SYNC"
    /\ fsm_pc' = Notify(fsm_pc)
    /\ fg_pc' = "idle"
    /\ UNCHANGED <<running, flag_send_req, flag_send_stop, flag_send_drop,
                   counters, fsm_locals, has_gui, codec, disk, cmds,
                   registry, obs_queue, sent, rx_count, now>>

\* CommTask.send_request, lines 175-176: the state is read
send_request ==
    /\ CanCall
    /\ fsm_pc # "none"
    /\ fg_pc' = IF state # "CONNECTED" THEN "idle" ELSE "send_request_set_state"
    /\ cmds' = IF state # "CONNECTED" THEN cmds ELSE cmds + 1
    /\ UNCHANGED <<commtask, counters, fsm_locals, has_gui, codec, disk,
                   fsm_pc, registry, obs_queue, sent, rx_count, now>>

\* CommTask.send_request, line 178: _set_state(TRANSFER)
send_request_set_state ==
    /\ fg_pc = "send_request_set_state"
    /\ LockFree
    /\ state' = "TRANSFER"
    /\ fsm_pc' = Notify(fsm_pc)
    /\ fg_pc' = "send_request_flag"
    /\ UNCHANGED <<running, flag_send_req, flag_send_stop, flag_send_drop,
                   counters, fsm_locals, has_gui, codec, disk, cmds,
                   registry, obs_queue, sent, rx_count, now>>

\* send_request with the fault of writing the Request frame to the transport
\* itself instead of leaving it to the thread
send_request_writes ==
    /\ fg_pc = "send_request_flag"
    /\ LockFree
    /\ flag_send_req' = TRUE
    /\ fsm_pc' = Notify(fsm_pc)
    /\ fg_pc' = "idle"
    /\ sent' = Sent("request")
    /\ UNCHANGED <<state, running, flag_send_stop, flag_send_drop, counters,
                   fsm_locals, has_gui, codec, disk, cmds, registry,
                   obs_queue, rx_count, now>>

\* CommTask.send_request, lines 180-182: the flag is set under the lock
send_request_flag ==
    /\ fg_pc = "send_request_flag"
    /\ LockFree
    /\ flag_send_req' = TRUE
    /\ fsm_pc' = Notify(fsm_pc)
    /\ fg_pc' = "idle"
    /\ UNCHANGED <<state, running, flag_send_stop, flag_send_drop, counters,
                   fsm_locals, has_gui, codec, disk, cmds, registry,
                   obs_queue, sent, rx_count, now>>

\* CommTask.send_stop, lines 191-192: the state is read
send_stop ==
    /\ CanCall
    /\ fsm_pc # "none"
    /\ fg_pc' = IF state # "TRANSFER" THEN "idle" ELSE "send_stop_flag"
    /\ cmds' = IF state # "TRANSFER" THEN cmds ELSE cmds + 1
    /\ UNCHANGED <<commtask, counters, fsm_locals, has_gui, codec, disk,
                   fsm_pc, registry, obs_queue, sent, rx_count, now>>

\* CommTask.send_stop, line 194: the flag is set without the lock
send_stop_flag ==
    /\ fg_pc = "send_stop_flag"
    /\ flag_send_stop' = TRUE
    /\ fg_pc' = "send_stop_counters"
    /\ UNCHANGED <<state, running, flag_send_req, flag_send_drop, counters,
                   fsm_locals, has_gui, codec, disk, fsm_pc, cmds, registry,
                   obs_queue, sent, rx_count, now>>

\* CommTask.send_stop, lines 199-200: the counters are reset
send_stop_counters ==
    /\ fg_pc = "send_stop_counters"
    /\ frames_received' = 0
    /\ bytes_received' = 0
    /\ fg_pc' = "idle"
    /\ UNCHANGED <<commtask, fsm_locals, has_gui, codec, disk, fsm_pc, cmds,
                   registry, obs_queue, sent, rx_count, now>>

\* CommTask.send_drop: the flag is set under the lock, for which the call
\* waits
send_drop ==
    /\ CanCall
    /\ fsm_pc # "none"
    /\ LockFree
    /\ flag_send_drop' = TRUE
    /\ fsm_pc' = Notify(fsm_pc)
    /\ cmds' = cmds + 1
    /\ UNCHANGED <<state, running, flag_send_req, flag_send_stop, counters,
                   fsm_locals, has_gui, codec, disk, fg_pc, registry,
                   obs_queue, sent, rx_count, now>>

(***************************************************************************)
(* The environment: the clock and what a read of the transport returns.    *)
(***************************************************************************)

\* what serial_ctrl.listen_msg may return: None, nothing, or one of the
\* buffers while the performer has some to send
Responses ==
    {NoResponse, EmptyRead} \cup (IF rx_count < MaxRx THEN Buffers ELSE {})

\* the buffers delivered, response included
Delivered(response) ==
    IF response \in {NoResponse, EmptyRead} THEN rx_count ELSE rx_count + 1

\* "if response is not None: received_frame.parse(response)"
ParseResponse(f, response) ==
    IF response = NoResponse THEN [frame |-> f, exc |-> "ok"]
    ELSE parse(f, response)

(***************************************************************************)
(* The thread of CommTask: __run and the loops it calls.  The thread holds *)
(* the condition's lock from the handler to the end of the pass, except    *)
(* while it waits.                                                         *)
(***************************************************************************)
\* the locals of the function the thread is in
Locals(frame, i, k, rel) ==
    /\ received_frame' = frame
    /\ iter' = i
    /\ cursor' = k
    /\ relative_time' = rel

\* the thread is in no function that has locals
NoLocals == Locals(MCTPFrame, 0, 0, 0)

\* __run, line 250: the test of the while loop
run_loop ==
    /\ fsm_pc = "loop"
    /\ fsm_pc' = IF running THEN "lock" ELSE "done"
    /\ UNCHANGED <<commtask, counters, fsm_locals, has_gui, codec, disk,
                   fg_pc, cmds, registry, obs_queue, sent, rx_count, now>>

\* __run, line 251: with self.update
run_lock ==
    /\ fsm_pc = "lock"
    /\ fsm_pc' = "handler"
    /\ UNCHANGED <<commtask, counters, fsm_locals, has_gui, codec, disk,
                   fg_pc, cmds, registry, obs_queue, sent, rx_count, now>>

\* an exception nobody catches ends the thread; the with block releases the
\* lock on the way out
Uncaught(exception) ==
    /\ fsm_pc' = exception
    /\ NoLocals

\* CommTask.stop called by the thread itself (the handlers of SerialCtrlError
\* in the loops): running and state are written, then thread.join() on the
\* current thread raises RuntimeError, which nobody catches
stop_in_thread ==
    /\ running' = FALSE
    /\ state' = "IDLE"
    /\ Uncaught("RuntimeError")

\* __application_event_handler, lines 221-222 and __drop_loop up to its loop;
\* the first send is outside the try
handler_drop(io_ok) ==
    /\ fsm_pc = "handler"
    /\ flag_send_drop
    /\ IF io_ok
       THEN /\ Locals(MCTPFrame, 0, 0, 0)
            /\ timeouts' = set_timeout(timeouts, "drop", 3)
            /\ fsm_pc' = "drop_loop"
       ELSE /\ Uncaught("SerialCtrlError")
            /\ UNCHANGED timeouts
    /\ UNCHANGED <<commtask, counters, has_gui, codec, disk, fg_pc, cmds,
                   registry, obs_queue, sent, rx_count, now>>

\* handler_req with the fault of a Request that does not wait for a pending
\* Drop
handler_req_before_drop(io_ok) ==
    /\ fsm_pc = "handler"
    /\ flag_send_req
    /\ IF io_ok
       THEN /\ sent' = Sent("request")
            /\ flag_send_req' = FALSE
            /\ start_time_ref' = now
            /\ fsm_pc' = "body"
            /\ NoLocals
       ELSE /\ Uncaught("SerialCtrlError")
            /\ UNCHANGED <<sent, flag_send_req, start_time_ref>>
    /\ UNCHANGED <<state, running, flag_send_stop, flag_send_drop, counters,
                   timeouts, has_gui, codec, disk, fg_pc, cmds, channels,
                   obs_queue, rx_count, now>>

\* __application_event_handler, lines 225-234
handler_req(io_ok) ==
    /\ fsm_pc = "handler"
    /\ ~flag_send_drop
    /\ flag_send_req
    /\ IF io_ok
       THEN /\ sent' = Sent("request")
            /\ flag_send_req' = FALSE
            /\ start_time_ref' = now
            /\ fsm_pc' = "body"
            /\ NoLocals
       ELSE /\ Uncaught("SerialCtrlError")
            /\ UNCHANGED <<sent, flag_send_req, start_time_ref>>
    /\ UNCHANGED <<state, running, flag_send_stop, flag_send_drop, counters,
                   timeouts, has_gui, codec, disk, fg_pc, cmds, channels,
                   obs_queue, rx_count, now>>

\* __application_event_handler, lines 236-237 and __stop_loop up to its loop
handler_stop(io_ok) ==
    /\ fsm_pc = "handler"
    /\ ~flag_send_drop
    /\ ~flag_send_req
    /\ flag_send_stop
    /\ IF io_ok
       THEN /\ Locals(MCTPFrame, 0, 0, 0)
            /\ timeouts' = set_timeout(timeouts, "stop", 2)
            /\ fsm_pc' = "stop_loop"
       ELSE /\ Uncaught("SerialCtrlError")
            /\ UNCHANGED timeouts
    /\ UNCHANGED <<commtask, counters, has_gui, codec, disk, fg_pc, cmds,
                   registry, obs_queue, sent, rx_count, now>>

\* __application_event_handler with no flag set
handler_none ==
    /\ fsm_pc = "handler"
    /\ ~flag_send_drop
    /\ ~flag_send_req
    /\ ~flag_send_stop
    /\ fsm_pc' = "body"
    /\ UNCHANGED <<commtask, counters, fsm_locals, has_gui, codec, disk,
                   fg_pc, cmds, registry, obs_queue, sent, rx_count, now>>

\* __drop_loop, lines 397-401: the deadline has passed; back in the handler,
\* line 223
drop_loop_timeout ==
    /\ fsm_pc = "drop_loop"
    /\ iter >= 1
    /\ timeouts' = TimeoutExpired(timeouts, "drop")
    /\ state' = "IDLE"
    /\ flag_send_drop' = FALSE
    /\ fsm_pc' = "body"
    /\ NoLocals
    /\ UNCHANGED <<running, flag_send_req, flag_send_stop, counters, has_gui,
                   codec, disk, fg_pc, cmds, registry, obs_queue, sent,
                   rx_count, now>>

\* __drop_loop, lines 408-412: send or listen_msg raised SerialCtrlError
drop_loop_io_error ==
    /\ fsm_pc = "drop_loop"
    /\ iter < MaxIter
    /\ stop_in_thread
    /\ UNCHANGED <<flag_send_req, flag_send_stop, flag_send_drop, counters,
                   timeouts, has_gui, codec, disk, fg_pc, cmds, registry,
                   obs_queue, sent, rx_count, now>>

\* __drop_loop, lines 403-407 and 413-418: one iteration that read response;
\* when the loop ends, lines 417-418 and the handler's line 223
drop_loop_recv(response) ==
    /\ fsm_pc = "drop_loop"
    /\ iter < MaxIter
    /\ LET r == ParseResponse(received_frame, response)
       IN IF r.exc \notin ParseErrors \cup {"ok"}
          THEN /\ Uncaught(r.exc)
               /\ UNCHANGED <<state, flag_send_drop>>
          ELSE IF r.frame.frame_type = "drop"
          THEN /\ state' = "IDLE"
               /\ flag_send_drop' = FALSE
               /\ fsm_pc' = "body"
               /\ NoLocals
          ELSE /\ Locals(r.frame, iter + 1, 0, 0)
               /\ UNCHANGED <<state, flag_send_drop, fsm_pc>>
    /\ rx_count' = Delivered(response)
    /\ UNCHANGED <<running, flag_send_req, flag_send_stop, counters,
                   timeouts, has_gui, codec, disk, fg_pc, cmds, registry,
                   obs_queue, sent, now>>

\* stop_loop_timeout with the fault of a state that is left as it is
stop_loop_timeout_no_drop ==
    /\ fsm_pc = "stop_loop"
    /\ iter >= 1
    /\ timeouts' = TimeoutExpired(timeouts, "stop")
    /\ state' = state
    /\ frames_received' = 0
    /\ bytes_received' = 0
    /\ fsm_pc' = "body"
    /\ NoLocals
    /\ UNCHANGED <<running, flag_send_req, flag_send_stop, flag_send_drop,
                   has_gui, codec, disk, fg_pc, cmds, registry, obs_queue,
                   sent, rx_count, now>>

\* __stop_loop, lines 365-368: the deadline has passed; back in the handler,
\* lines 238-239
stop_loop_timeout ==
    /\ fsm_pc = "stop_loop"
    /\ iter >= 1
    /\ timeouts' = TimeoutExpired(timeouts, "stop")
    /\ state' = "IDLE"
    /\ frames_received' = 0
    /\ bytes_received' = 0
    /\ fsm_pc' = "body"
    /\ NoLocals
    /\ UNCHANGED <<running, flag_send_req, flag_send_stop, flag_send_drop,
                   has_gui, codec, disk, fg_pc, cmds, registry, obs_queue,
                   sent, rx_count, now>>

\* __stop_loop, lines 375-379: send or listen_msg raised SerialCtrlError
stop_loop_io_error ==
    /\ fsm_pc = "stop_loop"
    /\ iter < MaxIter
    /\ stop_in_thread
    /\ UNCHANGED <<flag_send_req, flag_send_stop, flag_send_drop, counters,
                   timeouts, has_gui, codec, disk, fg_pc, cmds, registry,
                   obs_queue, sent, rx_count, now>>

\* stop_loop_recv with the fault of a Stop order that stays pending when the
\* Stop frame has come
stop_loop_recv_still_pending(response) ==
    /\ fsm_pc = "stop_loop"
    /\ iter < MaxIter
    /\ LET r == ParseResponse(received_frame, response)
       IN IF r.exc \notin ParseErrors \cup {"ok"}
          THEN /\ Uncaught(r.exc)
               /\ UNCHANGED <<state, flag_send_stop, counters>>
          ELSE IF r.frame.frame_type = "stop"
          THEN /\ state' = "CONNECTED"
               /\ flag_send_stop' = flag_send_stop
               /\ frames_received' = 0
               /\ bytes_received' = 0
               /\ fsm_pc' = "body"
               /\ NoLocals
          ELSE /\ Locals(r.frame, iter + 1, 0, 0)
               /\ UNCHANGED <<state, flag_send_stop, counters, fsm_pc>>
    /\ rx_count' = Delivered(response)
    /\ UNCHANGED <<running, flag_send_req, flag_send_drop, timeouts, has_gui,
                   codec, disk, fg_pc, cmds, registry, obs_queue, sent, now>>

\* __stop_loop, lines 370-374 and 380-385: one iteration that read response;
\* when the loop ends, lines 384-385 and the handler's lines 238-239
stop_loop_recv(response) ==
    /\ fsm_pc = "stop_loop"
    /\ iter < MaxIter
    /\ LET r == ParseResponse(received_frame, response)
       IN IF r.exc \notin ParseErrors \cup {"ok"}
          THEN /\ Uncaught(r.exc)
               /\ UNCHANGED <<state, flag_send_stop, counters>>
          ELSE IF r.frame.frame_type = "stop"
          THEN /\ state' = "CONNECTED"
               /\ flag_send_stop' = FALSE
               /\ frames_received' = 0
               /\ bytes_received' = 0
               /\ fsm_pc' = "body"
               /\ NoLocals
          ELSE /\ Locals(r.frame, iter + 1, 0, 0)
               /\ UNCHANGED <<state, flag_send_stop, counters, fsm_pc>>
    /\ rx_count' = Delivered(response)
    /\ UNCHANGED <<running, flag_send_req, flag_send_drop, timeouts, has_gui,
                   codec, disk, fg_pc, cmds, registry, obs_queue, sent, now>>

\* __run, lines 255-257 and 293-296: update.wait() in IDLE and CONNECTED
run_wait ==
    /\ fsm_pc = "body"
    /\ state \in {"IDLE", "CONNECTED"}
    /\ fsm_pc' = "wait"
    /\ UNCHANGED <<commtask, counters, fsm_locals, has_gui, codec, disk,
                   fg_pc, cmds, registry, obs_queue, sent, rx_count, now>>

\* __run, line 261 and __sync_loop up to its loop
run_sync ==
    /\ fsm_pc = "body"
    /\ state = "SYNC"
    /\ Locals(MCTPFrame, 0, 0, 0)
    /\ timeouts' = set_timeout(timeouts, "sync", 5)
    /\ fsm_pc' = "sync_loop"
    /\ UNCHANGED <<commtask, counters, has_gui, codec, disk, fg_pc, cmds,
                   registry, obs_queue, sent, rx_count, now>>

\* sync_loop_timeout with the fault of an observer that is not told
sync_loop_timeout_silent ==
    /\ fsm_pc = "sync_loop"
    /\ iter >= 1
    /\ timeouts' = TimeoutExpired(timeouts, "sync")
    /\ state' = "IDLE"
    /\ obs_queue' = obs_queue
    /\ fsm_pc' = "loop"
    /\ NoLocals
    /\ UNCHANGED <<running, flag_send_req, flag_send_stop, flag_send_drop,
                   counters, has_gui, codec, disk, fg_pc, cmds, registry,
                   sent, rx_count, now>>

\* __sync_loop, lines 429-432: the deadline has passed; then __run, lines
\* 262-271
sync_loop_timeout ==
    /\ fsm_pc = "sync_loop"
    /\ iter >= 1
    /\ timeouts' = TimeoutExpired(timeouts, "sync")
    /\ state' = "IDLE"
    /\ obs_queue' = enqueue_update(obs_queue, "STATUS_FAILED", 0)
    /\ fsm_pc' = "loop"
    /\ NoLocals
    /\ UNCHANGED <<running, flag_send_req, flag_send_stop, flag_send_drop,
                   counters, has_gui, codec, disk, fg_pc, cmds, registry,
                   sent, rx_count, now>>

\* __sync_loop, lines 439-443: send or listen_msg raised SerialCtrlError
sync_loop_io_error ==
    /\ fsm_pc = "sync_loop"
    /\ iter < MaxIter
    /\ stop_in_thread
    /\ UNCHANGED <<flag_send_req, flag_send_stop, flag_send_drop, counters,
                   timeouts, has_gui, codec, disk, fg_pc, cmds, registry,
                   obs_queue, sent, rx_count, now>>

\* __sync_loop, lines 434-438 and 444-451: one iteration that read response.
\* When the loop ends, __run, lines 273-282: the channels are added, Ack is
\* sent (ack_ok: the send did not raise) and the state is set.
sync_loop_recv(response, ack_ok) ==
    /\ fsm_pc = "sync_loop"
    /\ iter < MaxIter
    /\ LET r == ParseResponse(received_frame, response)
       IN IF r.exc \notin ParseErrors \cup {"ok", "UnicodeDecodeError"}
          THEN /\ Uncaught(r.exc)
               /\ UNCHANGED <<state, channels, sent>>
          ELSE IF r.frame.frame_type = "sync_resp"
          THEN /\ channels' = AddChannels(channels, 0, r.frame.n_of_channels)
               /\ IF ack_ok
                  THEN /\ sent' = Sent("ack")
                       /\ state' = "CONNECTED"
                       /\ IF has_gui
                          THEN /\ fsm_pc' = "sync_notify"
                               /\ Locals(r.frame, 0, 0, 0)
                          ELSE /\ fsm_pc' = "loop"
                               /\ NoLocals
                  ELSE /\ Uncaught("SerialCtrlError")
                       /\ UNCHANGED <<sent, state>>
          ELSE /\ Locals(r.frame, iter + 1, 0, 0)
               /\ ack_ok
               /\ UNCHANGED <<state, channels, sent, fsm_pc>>
    /\ rx_count' = Delivered(response)
    /\ UNCHANGED <<running, flag_send_req, flag_send_stop, flag_send_drop,
                   counters, timeouts, has_gui, codec, disk, fg_pc, cmds,
                   start_time_ref, obs_queue, now>>

\* __run, lines 285-291: the observer is told of the connection
sync_notify ==
    /\ fsm_pc = "sync_notify"
    /\ obs_queue' = enqueue_update(obs_queue, "STATUS_CONNECTED",
                                   received_frame.n_of_channels)
    /\ fsm_pc' = "loop"
    /\ NoLocals
    /\ UNCHANGED <<commtask, counters, timeouts, has_gui, codec, disk, fg_pc,
                   cmds, registry, sent, rx_count, now>>

\* transfer_poll with the fault of counting a frame that is not a data frame
transfer_poll_counts(response) ==
    /\ fsm_pc = "body"
    /\ state = "TRANSFER"
    /\ LET r == ParseResponse(MCTPFrame, response)
       IN /\ r.frame.frame_type # "data" \/ r.exc # "ok"
          /\ fsm_pc' = IF r.exc \notin ParseErrors \cup {"ok", "UnicodeDecodeError"}
                       THEN r.exc ELSE "loop"
          /\ frames_received' =
                IF response = NoResponse \/ r.exc # "ok"
                THEN frames_received ELSE frames_received + 1
    /\ rx_count' = Delivered(response)
    /\ UNCHANGED <<commtask, bytes_received, fsm_locals, has_gui, codec, disk,
                   fg_pc, cmds, registry, obs_queue, sent, now>>

\* __run, lines 303-305 and 308-317: a poll in TRANSFER that brought no frame
\* of type data, or none at all
transfer_poll(response) ==
    /\ fsm_pc = "body"
    /\ state = "TRANSFER"
    /\ LET r == ParseResponse(MCTPFrame, response)
       IN /\ r.frame.frame_type # "data" \/ r.exc # "ok"
          /\ fsm_pc' = IF r.exc \notin ParseErrors \cup {"ok", "UnicodeDecodeError"}
                       THEN r.exc ELSE "loop"
    /\ rx_count' = Delivered(response)
    /\ UNCHANGED <<commtask, counters, fsm_locals, has_gui, codec, disk,
                   fg_pc, cmds, registry, obs_queue, sent, now>>

\* __run, line 303: listen_msg raised SerialCtrlError, which __run does not
\* catch
transfer_io_error ==
    /\ fsm_pc = "body"
    /\ state = "TRANSFER"
    /\ Uncaught("SerialCtrlError")
    /\ UNCHANGED <<commtask, counters, timeouts, has_gui, codec, disk, fg_pc,
                   cmds, registry, obs_queue, sent, rx_count, now>>

\* __run, lines 319-341 and data_registry.append_data, line 97: a frame of
\* type data arrived; the observer is told, then the appends begin
transfer_data(response) ==
    /\ fsm_pc = "body"
    /\ state = "TRANSFER"
    /\ response # NoResponse
    /\ LET r == parse(MCTPFrame, response)
       IN /\ r.frame.frame_type = "data" /\ r.exc = "ok"
          /\ Locals(r.frame, 0, 0, now - start_time_ref)
          /\ obs_queue' = enqueue_update(
                 enqueue_update(obs_queue, "APPEND_TEXT", r.frame.text_channels),
                 "CH_INFO_DRAW", 0)
    /\ rx_count' = Delivered(response)
    /\ fsm_pc' = "append_data"
    /\ UNCHANGED <<commtask, counters, timeouts, has_gui, codec, disk, fg_pc,
                   cmds, registry, sent, now>>

\* A time value start + full_period * i / n, kept as a fraction
TimeValue(num, den) == [num |-> num, den |-> den]

\* __generate_time_array with the fault of times that run backwards from the
\* start time
__generate_time_array_backwards(arr, full_period, start_time) ==
    [i \in 1..Len(arr) |->
        TimeValue(start_time * Len(arr) - full_period * (i - 1), Len(arr))]

\* DataRegistry.__generate_time_array, for len(arr) > 0
__generate_time_array(arr, full_period, start_time) ==
    [i \in 1..Len(arr) |->
        TimeValue(start_time * Len(arr) + full_period * (i - 1), Len(arr))]

\* DataRegistry.append_data, lines 100-109, for a channel that was added and
\* a frame that has samples for it: the time values are appended to x_data,
\* recv_time becomes the time of this frame
AppendTimes(chs, ch_id, ch_data, rel) ==
    LET channel == chs[ch_id]
        full_period == rel - channel.recv_time
    IN [chs EXCEPT ![ch_id] =
           [@ EXCEPT !.x_data = @ \o __generate_time_array(
                                       ch_data, full_period, channel.recv_time),
                     !.recv_time = @ + full_period]]

\* DataRegistry.append_data, line 112: the samples are appended to y_data
AppendValues(chs, ch_id, ch_data) ==
    [chs EXCEPT ![ch_id].y_data = @ \o ch_data]

\* DataRegistry.append_data, lines 99-109 for the next channel of the frame:
\* KeyError for a channel that was not added, ZeroDivisionError for a channel
\* without samples
append_data ==
    /\ fsm_pc = "append_data"
    /\ cursor < Len(received_frame.data_channels)
    /\ LET ch_id == received_frame.data_channels[cursor + 1].id
           ch_data == received_frame.data_channels[cursor + 1].val
       IN IF ch_id \notin DOMAIN channels \/ Len(ch_data) = 0
          THEN /\ Uncaught(IF ch_id \notin DOMAIN channels
                           THEN "KeyError" ELSE "ZeroDivisionError")
               /\ UNCHANGED channels
          ELSE /\ channels' = AppendTimes(channels, ch_id, ch_data,
                                           relative_time)
               /\ fsm_pc' = "append_y"
               /\ UNCHANGED <<received_frame, iter, cursor, relative_time>>
    /\ UNCHANGED <<commtask, counters, timeouts, has_gui, codec, disk, fg_pc,
                   cmds, start_time_ref, obs_queue, sent, rx_count, now>>

\* DataRegistry.append_data, line 112
append_y ==
    /\ fsm_pc = "append_y"
    /\ LET ch_id == received_frame.data_channels[cursor + 1].id
           ch_data == received_frame.data_channels[cursor + 1].val
       IN channels' = AppendValues(channels, ch_id, ch_data)
    /\ cursor' = cursor + 1
    /\ fsm_pc' = "append_data"
    /\ UNCHANGED <<commtask, counters, received_frame, iter, timeouts,
                   relative_time, has_gui, codec, disk, fg_pc, cmds,
                   start_time_ref, obs_queue, sent, rx_count, now>>

\* DataRegistry.append_data is through; DataRegistry.append_text, line 126
append_data_done ==
    /\ fsm_pc = "append_data"
    /\ cursor = Len(received_frame.data_channels)
    /\ relative_time' = now - start_time_ref
    /\ fsm_pc' = "append_text"
    /\ UNCHANGED <<commtask, counters, received_frame, iter, timeouts,
                   cursor, has_gui, codec, disk, fg_pc, cmds, registry,
                   obs_queue, sent, rx_count, now>>

\* the loop of DataRegistry.append_text, lines 128-133, from entry k of the
\* frame's text channels: the channels as the loop leaves them and whether it
\* raised KeyError
RECURSIVE AppendTextFrom(_, _, _, _)
AppendTextFrom(chs, frame_text_data, k, rel) ==
    IF k > Len(frame_text_data) THEN [channels |-> chs, exc |-> "ok"]
    ELSE LET ch_id == frame_text_data[k].id
         IN IF ch_id \notin DOMAIN chs THEN [channels |-> chs, exc |-> "KeyError"]
            ELSE AppendTextFrom(
                   [chs EXCEPT ![ch_id] =
                       [@ EXCEPT !.text = @ \o frame_text_data[k].val \o <<10>>,
                                 !.recv_time = @ + (rel - @)]],
                   frame_text_data, k + 1, rel)

\* DataRegistry.append_text, then __run, lines 349-351
append_text ==
    /\ fsm_pc = "append_text"
    /\ LET r == AppendTextFrom(channels, received_frame.text_channels, 1,
                               relative_time)
       IN /\ channels' = r.channels
          /\ IF r.exc = "ok"
             THEN /\ frames_received' = frames_received + 1
                  /\ bytes_received' = bytes_received + received_frame.data_size
                  /\ fsm_pc' = "loop"
                  /\ NoLocals
             ELSE /\ Uncaught(r.exc)
                  /\ UNCHANGED counters
    /\ UNCHANGED <<commtask, timeouts, has_gui, codec, disk, fg_pc, cmds,
                   start_time_ref, obs_queue, sent, rx_count, now>>

(***************************************************************************)
(* The specification.                                                      *)
(***************************************************************************)
Foreground ==
    \/ start
    \/ stop
    \/ stop_set_state
    \/ stop_join
    \/ start_sync
    \/ start_sync_set_state
    \/ send_request
    \/ send_request_set_state
    \/ send_request_flag
    \/ send_stop
    \/ send_stop_flag
    \/ send_stop_counters
    \/ send_drop

Thread ==
    \/ run_loop
    \/ run_lock
    \/ \E io_ok \in BOOLEAN : handler_drop(io_ok)
    \/ \E io_ok \in BOOLEAN : handler_req(io_ok)
    \/ \E io_ok \in BOOLEAN : handler_stop(io_ok)
    \/ handler_none
    \/ drop_loop_timeout
    \/ drop_loop_io_error
    \/ \E response \in Responses : drop_loop_recv(response)
    \/ stop_loop_timeout
    \/ stop_loop_io_error
    \/ \E response \in Responses : stop_loop_recv(response)
    \/ run_wait
    \/ run_sync
    \/ sync_loop_timeout
    \/ sync_loop_io_error
    \/ \E response \in Responses, ack_ok \in BOOLEAN :
          sync_loop_recv(response, ack_ok)
    \/ sync_notify
    \/ \E response \in Responses : transfer_poll(response)
    \/ transfer_io_error
    \/ \E response \in Responses : transfer_data(response)
    \/ append_data
    \/ append_y
    \/ append_data_done
    \/ append_text

Next == Foreground \/ Thread

Spec == Init /\ [][Next]_vars

\* the steps by which the foreground thread goes on with a call it is in
FgContinue ==
    \/ stop_set_state
    \/ stop_join
    \/ start_sync_set_state
    \/ send_request_set_state
    \/ send_request_flag
    \/ send_stop_flag
    \/ send_stop_counters

\* Spec with the scheduling of the two threads: a thread that can run does
\* run, and a call that waits for the condition's lock gets it when the lock
\* is free again and again
FairSpec == Spec /\ WF_vars(Thread) /\ SF_vars(FgContinue)

(***************************************************************************)
(* The registry on its own: the calls of DataRegistry made one after       *)
(* another by a single thread, each call a step.                           *)
(***************************************************************************)
\* calls of the registry made in one run
MaxCalls == 4
\* the latest reading of the clock in one run
MaxNow == 3

\* the channels the calls name; channel 2 is never added
ChannelIds == {0, 1}

\* the data_channels of the frames handed to append_data: samples for an
\* added channel, for two channels, for a channel the registry does not have,
\* and a channel without samples
FrameData ==
    {<<[id |-> 0, val |-> <<1, 2>>]>>,
     <<[id |-> 0, val |-> <<3>>], [id |-> 1, val |-> <<4, 5>>]>>,
     <<[id |-> 0, val |-> <<6>>], [id |-> 2, val |-> <<7>>]>>,
     <<[id |-> 1, val |-> <<>>]>>}

\* the text_channels of the frames handed to append_text
FrameText ==
    {<<[id |-> 1, val |-> <<97>>]>>,
     <<[id |-> 0, val |-> <<98>>], [id |-> 2, val |-> <<99>>]>>}

\* what the calls of the registry leave alone
session ==
    <<commtask, counters, fsm_locals, has_gui, fsm_pc, fg_pc, obs_queue, sent,
      rx_count, codec, disk>>

\* AppendDataFrom with the fault of a sample that is lost on its way to y_data
RECURSIVE AppendDataFromLosingOne(_, _, _, _)
AppendDataFromLosingOne(chs, frame_data, k, rel) ==
    IF k > Len(frame_data) THEN [channels |-> chs, exc |-> "ok"]
    ELSE LET ch_id == frame_data[k].id
             ch_data == frame_data[k].val
         IN IF ch_id \notin DOMAIN chs THEN [channels |-> chs, exc |-> "KeyError"]
            ELSE IF Len(ch_data) = 0
            THEN [channels |-> chs, exc |-> "ZeroDivisionError"]
            ELSE AppendDataFromLosingOne(
                   AppendValues(AppendTimes(chs, ch_id, ch_data, rel),
                                ch_id, Tail(ch_data)),
                   frame_data, k + 1, rel)

\* the loop of DataRegistry.append_data, lines 99-112, from entry k of the
\* frame's data channels: the channels as the loop leaves them and the
\* exception that ended it, if any
RECURSIVE AppendDataFrom(_, _, _, _)
AppendDataFrom(chs, frame_data, k, rel) ==
    IF k > Len(frame_data) THEN [channels |-> chs, exc |-> "ok"]
    ELSE LET ch_id == frame_data[k].id
             ch_data == frame_data[k].val
         IN IF ch_id \notin DOMAIN chs THEN [channels |-> chs, exc |-> "KeyError"]
            ELSE IF Len(ch_data) = 0
            THEN [channels |-> chs, exc |-> "ZeroDivisionError"]
            ELSE AppendDataFrom(
                   AppendValues(AppendTimes(chs, ch_id, ch_data, rel),
                                ch_id, ch_data),
                   frame_data, k + 1, rel)

\* DataRegistry.clear_data
ClearData(chs) ==
    [i \in DOMAIN chs |->
        [chs[i] EXCEPT !.x_data = <<>>, !.y_data = <<>>, !.text = <<>>,
                       !.recv_time = 0]]

\* a call can be made
CanCallRegistry == cmds < MaxCalls

\* data_registry.add_channel(ch_id)
call_add_channel(ch_id) ==
    /\ CanCallRegistry
    /\ channels' = add_channel(channels, ch_id)
    /\ cmds' = cmds + 1
    /\ UNCHANGED <<session, start_time_ref, now>>

\* data_registry.set_time_ref()
call_set_time_ref ==
    /\ CanCallRegistry
    /\ start_time_ref' = now
    /\ cmds' = cmds + 1
    /\ UNCHANGED <<session, channels, now>>

\* data_registry.append_data(frame_data); what the call did before it raised
\* stays done
call_append_data(frame_data) ==
    /\ CanCallRegistry
    /\ channels' = AppendDataFrom(channels, frame_data, 1,
                                  now - start_time_ref).channels
    /\ cmds' = cmds + 1
    /\ UNCHANGED <<session, start_time_ref, now>>

\* data_registry.append_text(frame_text_data)
call_append_text(frame_text_data) ==
    /\ CanCallRegistry
    /\ channels' = AppendTextFrom(channels, frame_text_data, 1,
                                  now - start_time_ref).channels
    /\ cmds' = cmds + 1
    /\ UNCHANGED <<session, start_time_ref, now>>

\* data_registry.clear_data()
call_clear_data ==
    /\ CanCallRegistry
    /\ channels' = ClearData(channels)
    /\ cmds' = cmds + 1
    /\ UNCHANGED <<session, start_time_ref, now>>

\* time.time() has moved on between two calls
time_passes ==
    /\ now < MaxNow
    /\ now' = now + 1
    /\ UNCHANGED <<session, registry, cmds>>

RegistryInit == Init /\ ~has_gui

RegistryNext ==
    \/ \E ch_id \in ChannelIds : call_add_channel(ch_id)
    \/ call_set_time_ref
    \/ \E frame_data \in FrameData : call_append_data(frame_data)
    \/ \E frame_text_data \in FrameText : call_append_text(frame_text_data)
    \/ call_clear_data
    \/ time_passes

RegistrySpec == RegistryInit /\ [][RegistryNext]_vars

(***************************************************************************)
(* One time reference: the calls of the registry as a transfer makes them, *)
(* set_time_ref() being called only while no channel holds data, as at the *)
(* start of a first transfer or after clear_data().                        *)
(***************************************************************************)
\* data_registry.set_time_ref() while the registry holds no data
set_time_ref_at_start ==
    /\ \A ch \in DOMAIN channels :
          channels[ch].x_data = <<>> /\ channels[ch].recv_time = 0
    /\ call_set_time_ref

OneRefNext ==
    \/ \E ch_id \in ChannelIds : call_add_channel(ch_id)
    \/ set_time_ref_at_start
    \/ \E frame_data \in FrameData : call_append_data(frame_data)
    \/ \E frame_text_data \in FrameText : call_append_text(frame_text_data)
    \/ call_clear_data
    \/ time_passes

OneRefSpec == RegistryInit /\ [][OneRefNext]_vars

(***************************************************************************)
(* DataRegistry.save_data: the channels are added in ascending order, as   *)
(* __sync_loop adds them, so the dict's order is that of the ids; open()   *)
(* may raise OSError for any of the files.                                 *)
(***************************************************************************)
\* the files of one loop of save_data, from channel ch_id on: the channels
\* that hold something for the extension
RECURSIVE FilesFrom(_, _, _)
FilesFrom(chs, ch_id, ext) ==
    IF ch_id \notin DOMAIN chs THEN <<>>
    ELSE (IF (IF ext = "csv" THEN chs[ch_id].x_data ELSE chs[ch_id].text) = <<>>
          THEN <<>>
          ELSE <<[ch_id |-> ch_id, ext |-> ext]>>)
         \o FilesFrom(chs, ch_id + 1, ext)

\* the files save_data opens, in its order: channel_<id>.csv for the channels
\* with x_data, then channel_<id>.txt for the channels with text
SaveFiles(chs) == FilesFrom(chs, 0, "csv") \o FilesFrom(chs, 0, "txt")

\* the files written and the exception that leaves save_data when open()
\* raises for the files in failing: nothing in save_data catches it
RECURSIVE WriteFiles(_, _)
WriteFiles(todo, failing) ==
    IF todo = <<>> THEN [files |-> {}, exc |-> "ok"]
    ELSE IF Head(todo) \in failing THEN [files |-> {}, exc |-> "OSError"]
    ELSE LET rest == WriteFiles(Tail(todo), failing)
         IN [files |-> {Head(todo)} \cup rest.files, exc |-> rest.exc]

\* the files open() may fail for
FileNames == {[ch_id |-> c, ext |-> e] : c \in ChannelIds, e \in {"csv", "txt"}}

\* what save_data leaves alone
unsaved ==
    <<commtask, counters, fsm_locals, has_gui, fsm_pc, fg_pc, obs_queue, sent,
      rx_count, codec, registry, now>>

\* data_registry.add_channel(ch_id) for the next id, as __sync_loop calls it
enroll_next ==
    /\ Cardinality(DOMAIN channels) \in ChannelIds
    /\ call_add_channel(Cardinality(DOMAIN channels))

\* data_registry.save_data()
call_save_data(failing) ==
    /\ CanCallRegistry
    /\ LET r == WriteFiles(SaveFiles(channels), failing)
       IN disk' = [files |-> disk.files \cup r.files, exc |-> r.exc]
    /\ cmds' = cmds + 1
    /\ UNCHANGED unsaved

SaveNext ==
    \/ enroll_next
    \/ \E frame_data \in FrameData : call_append_data(frame_data)
    \/ \E frame_text_data \in FrameText : call_append_text(frame_text_data)
    \/ \E failing \in SUBSET FileNames : call_save_data(failing)

SaveSpec == RegistryInit /\ [][SaveNext]_vars

(***************************************************************************)
(* The program in cmd mode: the command loop of main.py drives a CommTask  *)
(* that has no observer, against a performer that follows the protocol on  *)
(* a transport that does not fail.  The commands are not counted: what the *)
(* session can do is bounded by the frames the performer sends.            *)
(***************************************************************************)
\* frames the performer sends in one run
MaxFrames == 3

\* the frames of a performer that follows the protocol
CleanBuffers == {B_SyncResp, B_SyncRespOne, B_Data, B_Stop, B_Drop}

\* what serial_ctrl.listen_msg returns in cmd mode
CleanResponses ==
    {NoResponse, EmptyRead} \cup
    (IF rx_count < MaxFrames THEN CleanBuffers ELSE {})

\* main.py, lines 36-37: "sync", task.start_sync() up to its test of the state
cmd_sync ==
    /\ fg_pc = "idle"
    /\ fsm_pc # "none"
    /\ obs_queue' = enqueue_update(obs_queue, "STATUS_SYNCING", 0)
    /\ fg_pc' = IF state = "IDLE" THEN "start_sync_set_state" ELSE "idle"
    /\ UNCHANGED <<commtask, counters, fsm_locals, has_gui, codec, disk,
                   fsm_pc, cmds, registry, sent, rx_count, now>>

\* main.py, lines 38-39: "request", task.send_request() up to its test of the
\* state
cmd_request ==
    /\ fg_pc = "idle"
    /\ fsm_pc # "none"
    /\ fg_pc' = IF state # "CONNECTED" THEN "idle" ELSE "send_request_set_state"
    /\ UNCHANGED <<commtask, counters, fsm_locals, has_gui, codec, disk,
                   fsm_pc, cmds, registry, obs_queue, sent, rx_count, now>>

\* main.py, lines 40-41: "stop", task.send_stop() up to its test of the state
cmd_stop ==
    /\ fg_pc = "idle"
    /\ fsm_pc # "none"
    /\ fg_pc' = IF state # "TRANSFER" THEN "clear_data" ELSE "cmd_stop_flag"
    /\ UNCHANGED <<commtask, counters, fsm_locals, has_gui, codec, disk,
                   fsm_pc, cmds, registry, obs_queue, sent, rx_count, now>>

\* main.py, line 41: the rest of task.send_stop(), the flag set without the
\* lock and the counters reset
cmd_stop_flag ==
    /\ fg_pc = "cmd_stop_flag"
    /\ flag_send_stop' = TRUE
    /\ frames_received' = 0
    /\ bytes_received' = 0
    /\ fg_pc' = "clear_data"
    /\ UNCHANGED <<state, running, flag_send_req, flag_send_drop, fsm_locals,
                   has_gui, codec, disk, fsm_pc, cmds, registry, obs_queue,
                   sent, rx_count, now>>

\* main.py, lines 42-43: data_registry.save_data(), which writes files, and
\* data_registry.clear_data(), neither under a lock
cmd_clear_data ==
    /\ fg_pc = "clear_data"
    /\ channels' = ClearData(channels)
    /\ fg_pc' = "idle"
    /\ UNCHANGED <<commtask, counters, fsm_locals, has_gui, codec, disk,
                   fsm_pc, cmds, start_time_ref, obs_queue, sent, rx_count,
                   now>>

\* main.py, lines 44-45: "drop", task.send_drop()
cmd_drop ==
    /\ fg_pc = "idle"
    /\ fsm_pc # "none"
    /\ LockFree
    /\ flag_send_drop' = TRUE
    /\ fsm_pc' = Notify(fsm_pc)
    /\ UNCHANGED <<state, running, flag_send_req, flag_send_stop, counters,
                   fsm_locals, has_gui, codec, disk, fg_pc, cmds, registry,
                   obs_queue, sent, rx_count, now>>

\* main.py, line 29: the CommTask of cmd mode has no observer
CmdInit == Init /\ ~has_gui

CmdForeground ==
    \/ start
    \/ cmd_sync
    \/ start_sync_set_state
    \/ cmd_request
    \/ send_request_set_state
    \/ send_request_flag
    \/ cmd_stop
    \/ cmd_stop_flag
    \/ cmd_clear_data
    \/ cmd_drop

\* the thread while the transport does not fail and the performer follows the
\* protocol
CmdThread ==
    \/ run_loop
    \/ run_lock
    \/ handler_drop(TRUE)
    \/ handler_req(TRUE)
    \/ handler_stop(TRUE)
    \/ handler_none
    \/ drop_loop_timeout
    \/ \E response \in CleanResponses : drop_loop_recv(response)
    \/ stop_loop_timeout
    \/ \E response \in CleanResponses : stop_loop_recv(response)
    \/ run_wait
    \/ run_sync
    \/ sync_loop_timeout
    \/ \E response \in CleanResponses : sync_loop_recv(response, TRUE)
    \/ \E response \in CleanResponses : transfer_poll(response)
    \/ \E response \in CleanResponses : transfer_data(response)
    \/ append_data
    \/ append_y
    \/ append_data_done
    \/ append_text

CmdNext == CmdForeground \/ CmdThread

CmdSpec == CmdInit /\ [][CmdNext]_vars

(***************************************************************************)
(* The codec on its own: a payload is serialized and the frame is parsed,  *)
(* or a buffer is parsed as it comes from the transport.                   *)
(***************************************************************************)
\* channels of a Data payload
MaxChannels == 2

\* the frame kinds that carry no payload
PlainKinds == {"sync", "ack", "request", "stop", "drop"}

\* typed channels as serialize_frame takes them: the limits of every data
\* type, text, and a channel without samples
TypedChannels ==
    {<<"CHAR", <<104, 105>>>>, <<"CHAR", <<>>>>,
     <<"INT8", <<-128, 127>>>>,
     <<"INT16", <<-32768, 32767>>>>, <<"INT16", <<>>>>,
     <<"INT32", <<-2147483647 - 1, 2147483647>>>>,
     <<"UINT8", <<0, 255>>>>,
     <<"UINT16", <<65535, 256>>>>,
     <<"UINT32", <<[u32lo |-> 65535, u32hi |-> 65535]>>>>,
     <<"FLOAT8", <<200>>>>,
     <<"FLOAT16", <<40000>>>>,
     <<"FLOAT32", <<[f32lo |-> 0, f32hi |-> 16256],
                    [f32lo |-> 52429, f32hi |-> 48588]>>>>}

\* the lists of at most n channels taken from a set of typed channels
ChannelLists(typed, n) == UNION {[1..k -> typed] : k \in 0..n}

\* the arguments of serialize_frame: <<frame_type, data_channels>>
Payloads ==
    {<<k, <<>>>> : k \in PlainKinds}
    \cup {<<"sync_resp", [i \in 1..n |-> 0]>> : n \in 0..MAX_CHANNELS}
    \cup {<<"data", chs>> : chs \in ChannelLists(TypedChannels, MaxChannels)}
    \cup {<<"data", [i \in 1..MAX_CHANNELS |-> <<"UINT8", <<i>>>>]>>}

\* raw_msg with the byte at index i (from 0) replaced by b
Poke(raw, i, b) == [raw EXCEPT ![i + 1] = b]

\* the values a damaged byte takes
PokedBytes == {0, 1, 10, 33, 255}

\* well-formed frames that the transport may damage
SoundFrames ==
    {serialize_frame("sync", <<>>), B_SyncResp}
    \cup {serialize_frame("data", chs) :
            chs \in ChannelLists({<<"CHAR", <<104, 105>>>>, <<"INT8", <<1, 2>>>>,
                                  <<"INT16", <<-2>>>>, <<"UINT8", <<>>>>,
                                  <<"FLOAT32", <<[f32lo |-> 0, f32hi |-> 16256]>>>>},
                                 MaxChannels)}

\* a Data frame of two channels of one INT8 sample each
TwoChannelFrame ==
    serialize_frame("data", <<<<"INT8", <<1>>>>, <<"INT8", <<2>>>>>>)

\* the positions of raw ahead of its EOM
Positions(raw) == 0..(Len(raw) - EOM_SIZE - 1)

\* raw with the bytes pad between its last channel and the EOM, counted in
\* the header's data_size
Padded(raw, pad) ==
    <<raw[1]>> \o LeBytes(raw[2] + 256 * raw[3] + Len(pad), 2)
    \o SubSeq(raw, 4, Len(raw) - EOM_SIZE) \o pad \o EOM

\* bytes of padding behind the channels of a Data frame
Paddings == {<<0>>, <<0, 0>>, <<0, 0, 0, 0>>, <<0, 0, 0, 0, 0>>, <<9, 9, 9, 9>>}

\* the buffers handed to parse as they are: frames with one damaged byte,
\* frames cut short with and without the EOM, frames of 33 to 255 channels,
\* a frame with two damaged bytes, Data frames with padding, and the buffers
\* of the performer
RawBuffers ==
    UNION {{Poke(raw, i, b) : i \in Positions(raw), b \in PokedBytes}
           \cup {Slice(raw, 0, k) : k \in 0..Len(raw)}
           \cup {Slice(raw, 0, k) \o EOM : k \in HEADER_SIZE..(Len(raw) - EOM_SIZE)} :
           raw \in SoundFrames}
    \cup {Poke(raw, HEADER_SIZE, n) :
            n \in (MAX_CHANNELS + 1)..255,
            raw \in {B_SyncResp, B_Data, TwoChannelFrame,
                     serialize_frame("data", <<>>)}}
    \cup {Poke(Poke(TwoChannelFrame, i, b), j, c) :
            i \in Positions(TwoChannelFrame), b \in PokedBytes,
            j \in Positions(TwoChannelFrame), c \in PokedBytes}
    \cup {Padded(raw, pad) :
            raw \in {B_Data, TwoChannelFrame, serialize_frame("data", <<>>)},
            pad \in Paddings}
    \cup Buffers

\* the inputs of the codec: a payload to serialize or a buffer to parse
CodecInputs ==
    {[CodecIdle EXCEPT !.pc = "payload", !.frame_type = p[1],
                       !.data_channels = p[2]] : p \in Payloads}
    \cup {[CodecIdle EXCEPT !.pc = "buffer", !.raw_msg = raw] :
            raw \in RawBuffers}

\* what the codec leaves alone
controller ==
    <<commtask, counters, fsm_locals, has_gui, fsm_pc, fg_pc, obs_queue, sent,
      rx_count, registry, cmds, now, disk>>

\* serialize_frame(frame_type, data_channels)
codec_serialize ==
    /\ codec.pc = "payload"
    /\ codec' = [codec EXCEPT
                   !.raw_msg = serialize_frame(codec.frame_type,
                                               codec.data_channels),
                   !.pc = "buffer"]
    /\ UNCHANGED controller

\* MCTPFrame().parse(raw_msg)
codec_parse ==
    /\ codec.pc = "buffer"
    /\ LET r == parse(MCTPFrame, codec.raw_msg)
       IN codec' = [codec EXCEPT !.frame = r.frame, !.exc = r.exc,
                                 !.pc = "parsed"]
    /\ UNCHANGED controller

CodecInit == SessionInit /\ ~has_gui /\ codec \in CodecInputs

CodecNext == codec_serialize \/ codec_parse

CodecSpec == CodecInit /\ [][CodecNext]_vars

(***************************************************************************)
(* The claims.                                                             *)
(***************************************************************************)
\* a transport I/O error ended the thread: SerialCtrlError that nobody
\* caught, or RuntimeError out of the stop() a handler of it called
IoErrorEnded == fsm_pc \in {"SerialCtrlError", "RuntimeError"}

\* C1: once a Drop order is pending while the thread is alive, the state is
\* eventually IDLE, whether the performer echoes Drop or the deadline of the
\* drop loop passes.  Runs in which the transport raised an I/O error are
\* left out (they are C5's).
C1_DropReachesIdle ==
    (flag_send_drop /\ ThreadAlive) ~> (state = "IDLE" \/ IoErrorEnded)

\* C2: stop() called by the foreground thread while the thread is alive
\* returns, and when it has returned running is false and the state is IDLE.
C2_StopReturns ==
    (fg_pc = "stop_set_state" /\ ThreadAlive)
        ~> (fg_pc = "idle" /\ ~running /\ state = "IDLE")

\* the thread handles response in one of its loops or in its poll of
\* TRANSFER, and parse fails on it with an MCTPParseError
ParseErrorStep ==
    \/ /\ fsm_pc \in {"sync_loop", "stop_loop", "drop_loop"}
       /\ \E response \in Buffers \cup {EmptyRead} :
             /\ parse(received_frame, response).exc \in ParseErrors
             /\ \/ \E ack_ok \in BOOLEAN : sync_loop_recv(response, ack_ok)
                \/ stop_loop_recv(response)
                \/ drop_loop_recv(response)
    \/ /\ fsm_pc = "body" /\ state = "TRANSFER"
       /\ \E response \in Buffers \cup {EmptyRead} :
             /\ parse(MCTPFrame, response).exc \in ParseErrors
             /\ transfer_poll(response)

\* C3: a step that handles a buffer on which parse fails with a parse error
\* leaves the state as it was.
C3_ParseErrorKeepsState == [][ParseErrorStep => state' = state]_vars

\* C4: when the thread has serviced a Drop order that was pending together
\* with a Request order, the Request order is discarded: it is no longer
\* pending, so that no later pass sends a Request frame or sets the time
\* reference for it.
C4_DropDiscardsRequest ==
    [][(flag_send_drop /\ flag_send_req /\ ~flag_send_drop')
          => ~flag_send_req']_vars

\* a write to or a read from the transport raises SerialCtrlError
IoErrorStep ==
    \/ handler_drop(FALSE)
    \/ handler_req(FALSE)
    \/ handler_stop(FALSE)
    \/ drop_loop_io_error
    \/ stop_loop_io_error
    \/ sync_loop_io_error
    \/ transfer_io_error
    \/ \E response \in Responses : sync_loop_recv(response, FALSE)

\* C5: a step in which the transport raises an I/O error leaves the state
\* IDLE, tells the observer STATUS_FAILED and leaves the thread alive.
C5_IoErrorRecovers ==
    [][IoErrorStep =>
          /\ state' = "IDLE"
          /\ fsm_pc' \notin {"none", "done"} \cup Exceptions
          /\ has_gui =>
                obs_queue' = Append(obs_queue,
                                    [order |-> "STATUS_FAILED", arg |-> 0])]_vars

\* the sync loop reads response, parse makes received_frame a sync_resp frame
\* of it, and the Ack is written
SyncRespObtained(response) ==
    /\ fsm_pc = "sync_loop"
    /\ LET r == parse(received_frame, response)
       IN r.exc \in ParseErrors \cup {"ok"} /\ r.frame.frame_type = "sync_resp"
    /\ sync_loop_recv(response, TRUE)

C8_RequestStartsTransfer ==
    [][/\ (fg_pc = "idle" /\ fg_pc' = "send_request_set_state") =>
               state = "CONNECTED"
       /\ (fg_pc = "send_request_set_state" /\ fg_pc' # fg_pc) =>
               /\ state' = "TRANSFER"
               /\ fg_pc' = "send_request_flag"
       /\ (fg_pc = "send_request_flag" /\ fg_pc' # fg_pc) => flag_send_req'
       /\ (flag_send_req /\ ~flag_send_req') =>
               /\ fsm_pc = "handler"
               /\ sent'.request = sent.request + 1
               /\ start_time_ref' = now
       /\ (sent'.request # sent.request) => (flag_send_req /\ ~flag_send_req')
      ]_vars

\* a Request was accepted and serviced: the state is TRANSFER, one Request
\* frame was written and the time reference is set
C8_Requested ==
    /\ state = "TRANSFER"
    /\ sent.request = 1
    /\ ~flag_send_req
    /\ start_time_ref = now

\* the thread, in its stop loop, reads a buffer that makes received_frame a
\* stop frame
StopObtained ==
    /\ fsm_pc = "stop_loop"
    /\ \E response \in Buffers :
          /\ parse(received_frame, response).frame.frame_type = "stop"
          /\ stop_loop_recv(response)

\* C9: when the stop loop, entered in TRANSFER, obtains a Stop frame before
\* its deadline, the state goes to CONNECTED and the Stop order is no longer
\* pending.
C9_StopConfirmed ==
    [][(state = "TRANSFER" /\ StopObtained) =>
          (state' = "CONNECTED" /\ ~flag_send_stop')]_vars

\* a transfer was stopped by a Stop frame of the performer: the deadline of
\* the stop loop was set and has not passed
C9_Stopped ==
    /\ state = "CONNECTED"
    /\ sent.request = 1
    /\ ~flag_send_stop
    /\ timeouts.stop # 0
    /\ fsm_pc = "wait"

\* C10: when the deadline of the stop loop passes, no Stop frame having come,
\* the state becomes IDLE.
C10_StopTimeoutDrops ==
    [][(fsm_pc = "stop_loop" /\ timeouts.stop # 0 /\ timeouts'.stop = 0) =>
          /\ received_frame.frame_type # "stop"
          /\ state' = "IDLE"]_vars

\* the stop loop of a transfer ran into its deadline
C10_StopTimedOut ==
    /\ state = "IDLE"
    /\ sent.request = 1
    /\ flag_send_stop
    /\ timeouts.stop = 0
    /\ fsm_pc = "wait"


\* a call of the API made in a state that does not accept the order
RejectedCall ==
    \/ start_sync /\ state # "IDLE"
    \/ send_request /\ state # "CONNECTED"
    \/ send_stop /\ state # "TRANSFER"

\* C11: an order issued in a state that does not accept it (start_sync outside
\* IDLE, send_request outside CONNECTED, send_stop outside TRANSFER) returns
\* at once and leaves the state, the flags of the pending orders, the frames
\* written and everything else the thread works on as they were.
C11_RejectedOrderIsNoOp ==
    [][RejectedCall =>
          /\ fg_pc' = "idle"
          /\ UNCHANGED <<commtask, counters, fsm_locals, fsm_pc, registry,
                         sent, rx_count>>]_vars

\* start_sync was called a second time while the first synchronisation was
\* still under way: only the observer has heard of the second call
C11_SyncRejected ==
    /\ has_gui
    /\ ThreadAlive
    /\ state = "SYNC"
    /\ fg_pc = "idle"
    /\ cmds = 2
    /\ obs_queue = <<[order |-> "STATUS_SYNCING", arg |-> 0],
                     [order |-> "STATUS_SYNCING", arg |-> 0]>>


\* C12: in every pass of the thread the handler of the orders runs before the
\* body of the state, and it services the pending orders by precedence: a
\* Request frame is written only by the handler and only when no Drop is
\* pending, the stop loop is entered only from the handler and only when
\* neither a Drop nor a Request is pending.
C12_OrderPrecedence ==
    [][/\ (sent'.request # sent.request \/ (flag_send_req /\ ~flag_send_req')) =>
              (fsm_pc = "handler" /\ ~flag_send_drop)
       /\ (fsm_pc # "stop_loop" /\ fsm_pc' = "stop_loop") =>
              (fsm_pc = "handler" /\ ~flag_send_drop /\ ~flag_send_req)
       /\ (fsm_pc # "body" /\ fsm_pc' = "body") =>
              fsm_pc \in {"handler", "drop_loop", "stop_loop"}]_vars

\* the handler found a Drop and a Request pending and is servicing the Drop;
\* no Request frame has been written
C12_DropBeforeRequest ==
    /\ fsm_pc = "drop_loop"
    /\ flag_send_drop
    /\ flag_send_req
    /\ sent.request = 0


\* the events the thread hands to the observer for a frame of type data
DataEvents == {"APPEND_TEXT", "CH_INFO_UPDATE", "CH_INFO_DRAW"}

\* C13: when an event for a frame of type data is put where the observer can
\* see it, the appends of that frame to the registry (append_data and
\* append_text) have been completed.
C13_AppendsBeforeEvents ==
    [][(/\ Len(obs_queue') > Len(obs_queue)
        /\ obs_queue'[Len(obs_queue')].order \in DataEvents) =>
          fsm_pc' \notin {"append_data", "append_y", "append_text"}]_vars


\* the readers of the registry on the foreground thread (ChartGUI.__update_lines
\* on the timer of the GUI, save_data after send_stop) take no lock: they run
\* whenever the foreground thread is not inside a call of the API
ReaderCanRun == fg_pc = "idle"

\* C14: a reader on the foreground thread never finds a channel whose x_data
\* and y_data differ in length, wherever the thread is in append_data.
C14_ReaderSeesEqualLengths ==
    ReaderCanRun =>
        \A ch \in DOMAIN channels :
            Len(channels[ch].x_data) = Len(channels[ch].y_data)


\* C15: after every call of the registry made one after another (add_channel,
\* set_time_ref, append_data, append_text, clear_data), every channel has as
\* many time values in x_data as samples in y_data.
C15_LengthLaw ==
    \A ch \in DOMAIN channels :
        Len(channels[ch].x_data) = Len(channels[ch].y_data)

\* two frames of samples and a text were appended to one channel at different
\* times
C15_Appended ==
    /\ fsm_pc = "none"
    /\ \E ch \in DOMAIN channels :
          /\ Len(channels[ch].y_data) >= 3
          /\ channels[ch].text # <<>>
          /\ channels[ch].recv_time > 1


\* the state becomes TRANSFER
EntersTransfer == state # "TRANSFER" /\ state' = "TRANSFER"

\* C16: whenever the state becomes TRANSFER, every channel of the registry has
\* empty x_data, y_data and text and recv_time 0.
C16_TransferStartsEmpty ==
    [][EntersTransfer =>
          \A ch \in DOMAIN channels' :
              channels'[ch] = [recv_time |-> 0, x_data |-> <<>>,
                               y_data |-> <<>>, text |-> <<>>]]_vars

\* C17: whenever the state becomes TRANSFER, frames_received and
\* bytes_received are both 0, whether the transfer before ended by Stop or by
\* Drop.
C17_TransferStartsAtZero ==
    [][EntersTransfer => (frames_received' = 0 /\ bytes_received' = 0)]_vars


\* C18: the foreground thread changes the state only in start_sync (IDLE to
\* SYNC) and in stop (the forced IDLE); send_request, send_stop and send_drop
\* leave every change of the state to the thread.
C18_ForegroundStateWrites ==
    [][(fg_pc' # fg_pc /\ state' # state) =>
          fg_pc \in {"start_sync_set_state", "stop_set_state"}]_vars


\* the thread makes a blocking read of the transport inside sync_loop,
\* stop_loop or drop_loop
LoopRead ==
    /\ fsm_pc \in {"sync_loop", "stop_loop", "drop_loop"}
    /\ \E response \in Responses :
          \/ drop_loop_recv(response)
          \/ stop_loop_recv(response)
          \/ \E ack_ok \in BOOLEAN : sync_loop_recv(response, ack_ok)

\* C19: the thread tests running and the pending orders between any two
\* blocking reads: a read made inside a loop is the first one since the test
\* of the while loop of __run and the handler of the orders (in TRANSFER every
\* poll is followed by both).  So once running is cleared the thread makes at
\* most one more read.
C19_RecheckBeforeNextRead == [][LoopRead => iter = 0]_vars


\* stop() has returned: the thread left its loop on finding running cleared,
\* the foreground thread is out of the call and has not called start() again
StopReturned == fsm_pc = "done" /\ fg_pc = "idle"

\* C20: when stop() has returned no order is pending, neither one that was
\* pending when stop() was called nor a new one, so that the thread of a later
\* start() finds nothing to service.
C20_NothingPendingAfterStop ==
    StopReturned => (~flag_send_req /\ ~flag_send_stop /\ ~flag_send_drop)


\* C21: the foreground thread never changes the data of the registry's
\* channels (clear_data, clear_channels) while the thread is alive in TRANSFER,
\* where it may append to them.
C21_ForegroundLeavesRegistry ==
    [][(fg_pc' # fg_pc /\ channels' # channels) =>
          ~(state = "TRANSFER" /\ ThreadAlive)]_vars


\* The positions of the thread at which frames are written to or read from
\* the transport.
SerialPcs == {"handler", "sync_loop", "stop_loop", "drop_loop", "body"}

\* C22: every write to and every read from the transport is a step of the
\* thread: a step that sends a frame or takes one from the transport is taken
\* at one of the thread's serial positions and leaves the foreground where it
\* was, so no API call does serial I/O.
C22_SerialIOOnThread ==
    [][(sent' # sent \/ rx_count' # rx_count) =>
          /\ fsm_pc \in SerialPcs
          /\ fg_pc' = fg_pc
          /\ cmds' = cmds]_vars

\* The foreground has made all its calls, the last one send_stop() having set
\* its flag, and the thread has sent the Ack of the sync and the Request.
C22_CallsMadeFramesSent ==
    /\ fg_pc = "idle"
    /\ cmds = MaxCmds
    /\ flag_send_stop
    /\ sent = [ack |-> 1, request |-> 1]


\* C23: when the state becomes CONNECTED on a SyncResp of N channels, the ids
\* of the channels of the registry are exactly 0..N-1, whatever an earlier
\* session of the same run has added.
C23_ChannelsAreThoseAnnounced ==
    [][\A response \in IF fsm_pc = "sync_loop" THEN CleanBuffers ELSE {} :
          (SyncRespObtained(response) /\ state' = "CONNECTED") =>
             LET N == parse(received_frame, response).frame.n_of_channels
             IN DOMAIN channels' = 0..(N - 1)]_vars


\* A channel of the registry without data
ChannelCleared(ch) ==
    /\ ch.x_data = <<>>
    /\ ch.y_data = <<>>
    /\ ch.text = <<>>
    /\ ch.recv_time = 0

\* C24: when a Drop order completes, the drop loop ending with the state IDLE,
\* x_data, y_data, text and recv_time of every channel are cleared.
C24_DropClearsData ==
    [][(fsm_pc = "drop_loop" /\ flag_send_drop /\ ~flag_send_drop'
          /\ state' = "IDLE") =>
          \A ch \in DOMAIN channels' : ChannelCleared(channels'[ch])]_vars


\* a time value is at most another: fractions with positive denominators
TimeLeq(a, b) == a.num * b.den <= b.num * a.den

RECURSIVE Deposited(_, _, _)
Deposited(chs, ch_id, text) ==
    IF chs = <<>> THEN <<>>
    ELSE (IF (Head(chs)[1] = "CHAR") = text
          THEN <<[id |-> ch_id, val |-> Head(chs)[2]]>>
          ELSE <<>>) \o Deposited(Tail(chs), ch_id + 1, text)

\* the frame parsed is the one serialize_frame built from a payload
RoundTrip == codec.pc = "parsed" /\ codec.frame_type # "None"

ParserErrorCode == ParseErrors \cup {"EBADDATATYPE"}

\* C27: parse is total: whatever the buffer, it returns a frame or raises a
\* parse error of one of the kinds of ParserErrorCode; nothing else leaves it.
C27_ParseReturnsOrParseError ==
    codec.pc = "parsed" => codec.exc \in ParserErrorCode \cup {"ok"}


\* The descriptors of the data section of a Data frame as they lie in it,
\* read as parse's loop reads them, up to and including the first one whose
\* running total passes data_size: id, channel_bytes, data type, the channel's
\* bytes and the running total 1 + sum of (4 + channel_bytes).
RECURSIVE Descriptors(_, _, _, _)
Descriptors(mctp_data, data_size, total_data_read, datainfo_beg) ==
    LET datainfo_end == datainfo_beg + DATAINFO_SIZE
        info == Slice(mctp_data, datainfo_beg, datainfo_end)
    IN IF ~(total_data_read < data_size) \/ Len(info) # DATAINFO_SIZE
       THEN <<>>
       ELSE LET ch_data_size == info[2] + 256 * info[3]
                total == total_data_read + DATAINFO_SIZE + ch_data_size
                d == [ch_id |-> info[1], ch_data_size |-> ch_data_size,
                      datatype |-> info[4],
                      raw_data |-> Slice(mctp_data, datainfo_end,
                                         datainfo_end + ch_data_size),
                      total |-> total]
            IN IF total > data_size THEN <<d>>
               ELSE <<d>> \o Descriptors(mctp_data, data_size, total,
                                         datainfo_end + ch_data_size)

\* the header's data_size of a buffer of at least MIN_FRAME_SIZE bytes
HeaderDataSize(raw) == raw[2] + 256 * raw[3]

\* the descriptors of a buffer that is a Data frame with a data section
DataDescriptors(raw) ==
    IF Len(raw) >= MIN_FRAME_SIZE /\ FrameType(raw[1]) = "data"
       /\ HeaderDataSize(raw) > 0
    THEN Descriptors(Slice(raw, HEADER_SIZE, HEADER_SIZE + HeaderDataSize(raw)),
                     HeaderDataSize(raw), 1, 1)
    ELSE <<>>

\* the channel of a descriptor converts: a known data type, whole samples,
\* and UTF-8 for text
Converts(d) ==
    /\ _convert_data(d.raw_data, d.datatype).exc = "ok"
    /\ DataType(d.datatype) = "CHAR" => Utf8Decode(d.raw_data) # <<-1>>

\* the buffer parsed is a Data frame in which a descriptor's running total
\* passes the header's data_size
Overrun ==
    /\ codec.pc = "parsed"
    /\ LET ds == DataDescriptors(codec.raw_msg)
       IN ds # <<>> /\ ds[Len(ds)].total > HeaderDataSize(codec.raw_msg)

\* the descriptor of Overrun is the first fault of the frame: the frame has
\* at most MAX_CHANNELS channels and the channels ahead of it convert
OverrunComesFirst ==
    /\ Overrun
    /\ codec.raw_msg[HEADER_SIZE + 1] <= MAX_CHANNELS
    /\ LET ds == DataDescriptors(codec.raw_msg)
       IN \A k \in 1..(Len(ds) - 1) : Converts(ds[k])

\* the frame holds what the descriptors ahead of the last one deposited, and
\* nothing of the last one
LastNotDeposited ==
    LET ds == DataDescriptors(codec.raw_msg)
        ahead == {ds[k].ch_id : k \in 1..(Len(ds) - 1)}
    IN DictKeys(codec.frame.data_channels)
          \cup DictKeys(codec.frame.text_channels) = ahead

\* C28 as the claim states it: parsing a Data frame in which a descriptor's
\* running total 1 + sum of (4 + channel_bytes) passes the header's data_size
\* fails with EUNMATCHSIZE, and that channel's samples are not in the frame.
C28_OverrunIsSizeMismatch ==
    Overrun => codec.exc = "EUNMATCHSIZE" /\ LastNotDeposited

\* C28, amended: the same for a frame of at most MAX_CHANNELS channels in
\* which the channels ahead of that descriptor convert; the frame then holds
\* the channels ahead of it and nothing of the channel itself.
C28_FirstFaultOverrun ==
    OverrunComesFirst => codec.exc = "EUNMATCHSIZE" /\ LastNotDeposited

\* A Data frame whose second descriptor passes data_size has been parsed: the
\* first channel is in the frame, the second is not.
C28_SecondChannelOverruns ==
    /\ OverrunComesFirst
    /\ Len(DataDescriptors(codec.raw_msg)) = 2
    /\ DictKeys(codec.frame.data_channels) = {0}
    /\ DataDescriptors(codec.raw_msg)[2].ch_id = 1


\* the buffer parsed is a SyncResp or Data frame with a data section; its
\* first byte is the number of channels
CountedFrame ==
    /\ codec.pc = "parsed"
    /\ Len(codec.raw_msg) >= MIN_FRAME_SIZE
    /\ FrameType(codec.raw_msg[1]) \in {"sync_resp", "data"}
    /\ HeaderDataSize(codec.raw_msg) > 0

\* C29: parsing a SyncResp or Data frame whose first data byte, the number of
\* channels, is above 32 fails with ECHEXCEED, for every value from 33 to 255.
C29_TooManyChannels ==
    (CountedFrame /\ codec.raw_msg[HEADER_SIZE + 1] > MAX_CHANNELS) =>
       codec.exc = "ECHEXCEED"

\* A Data frame that announces 255 channels, its descriptors behind the count,
\* has been parsed.
C29_Data255Channels ==
    /\ CountedFrame
    /\ codec.raw_msg = Poke(B_Data, HEADER_SIZE, 255)
    /\ codec.frame.n_of_channels = 255


\* the buffer parsed is a Data frame of at most MAX_CHANNELS channels in
\* which the first descriptor at fault is one of an undefined data type: it
\* lies within data_size and the channels ahead of it convert
UndefinedDataType ==
    /\ CountedFrame
    /\ codec.raw_msg[HEADER_SIZE + 1] <= MAX_CHANNELS
    /\ LET ds == DataDescriptors(codec.raw_msg)
       IN \E k \in 1..Len(ds) :
             /\ DataType(ds[k].datatype) = "ValueError"
             /\ ds[k].total <= HeaderDataSize(codec.raw_msg)
             /\ \A j \in 1..(k - 1) : Converts(ds[j])

\* C30: parsing a Data frame with a channel descriptor whose data type is
\* none of the ten values of DataType (0..9) fails with the error kind
\* EBADDATATYPE.
C30_UndefinedTypeIsBadDataType ==
    UndefinedDataType => codec.exc = "EBADDATATYPE"


\* the buffer parsed is a whole Data frame of n <= MAX_CHANNELS channels whose
\* n descriptors convert and end below data_size, padding behind them
PaddedData ==
    /\ CountedFrame
    /\ FrameType(codec.raw_msg[1]) = "data"
    /\ Len(codec.raw_msg) =
          HEADER_SIZE + HeaderDataSize(codec.raw_msg) + EOM_SIZE
    /\ LET n == codec.raw_msg[HEADER_SIZE + 1]
           ds == DataDescriptors(codec.raw_msg)
       IN /\ n <= MAX_CHANNELS
          /\ Len(ds) >= n
          /\ \A k \in 1..n : Converts(ds[k])
          /\ (IF n = 0 THEN 1 ELSE ds[n].total) < HeaderDataSize(codec.raw_msg)

\* C31: when the descriptors of a Data frame end below data_size, the bytes
\* that remain are discarded as padding: parse returns without error and the
\* frame holds the channels of those descriptors.
C31_PaddingIsDiscarded ==
    PaddedData =>
       LET n == codec.raw_msg[HEADER_SIZE + 1]
           ds == DataDescriptors(codec.raw_msg)
       IN /\ codec.exc = "ok"
          /\ DictKeys(codec.frame.data_channels)
                \cup DictKeys(codec.frame.text_channels) =
             {ds[k].ch_id : k \in 1..n}
          /\ \A k \in 1..Len(codec.frame.text_channels) :
                \E j \in 1..n :
                   /\ ds[j].ch_id = codec.frame.text_channels[k].id
                   /\ DataType(ds[j].datatype) = "CHAR"
                   /\ Utf8Decode(ds[j].raw_data) =
                         codec.frame.text_channels[k].val


\* C32: in save_data a file that cannot be written does not end the save:
\* every other file of a channel that holds data or text is written.
C32_SaveGoesOnAfterFailure ==
    [][\A failing \in SUBSET FileNames :
          call_save_data(failing) =>
             \A k \in 1..Len(SaveFiles(channels)) :
                SaveFiles(channels)[k] \notin failing =>
                   SaveFiles(channels)[k] \in disk'.files]_vars


\* the thread, polling in TRANSFER, ends its pass without a data frame to
\* append: nothing was read, the buffer did not parse, or the frame is of
\* another type
PollWithoutData ==
    /\ fsm_pc = "body"
    /\ state = "TRANSFER"
    /\ fsm_pc' \notin {"body", "append_data"}

\* C33: in TRANSFER, a pass in which no valid data frame is received (nothing
\* read, a buffer that does not parse, a frame of another type) leaves the
\* state, the registry and the counters frames_received and bytes_received as
\* they were.
C33_PollWithoutDataChangesNothing ==
    [][PollWithoutData =>
          /\ state' = state
          /\ channels' = channels
          /\ start_time_ref' = start_time_ref
          /\ frames_received' = frames_received
          /\ bytes_received' = bytes_received]_vars

\* After a sync and a request, and no other order, a buffer that does not
\* parse was polled in TRANSFER: the state, the channels and the counters are
\* those the request left.
C33_BadBufferPolled ==
    /\ state = "TRANSFER"
    /\ cmds = 2
    /\ fsm_pc = "struct.error"
    /\ frames_received = 0
    /\ DOMAIN channels = {0, 1}
    /\ \A ch \in DOMAIN channels : ChannelCleared(channels[ch])


\* the positions of the thread while it appends a data frame to the registry
AppendPcs == {"append_data", "append_y", "append_text"}

\* C34: no received frame ends the thread: in TRANSFER the appends of a data
\* frame that parsed, one that names a channel that was not added or holds a
\* channel without samples included, end with the thread back in its loop.
C34_DataFrameKeepsThreadRunning ==
    [][(fsm_pc \in AppendPcs /\ fsm_pc' \notin AppendPcs) =>
          fsm_pc' = "loop" /\ state' = "TRANSFER"]_vars


\* the last event the observer was sent is the outcome of a sync attempt
OutcomeReported ==
    /\ obs_queue # <<>>
    /\ obs_queue[Len(obs_queue)].order \in {"STATUS_CONNECTED", "STATUS_FAILED"}

\* C35: once start_sync() has read IDLE in a task that runs and has an
\* observer (it goes on to set SYNC), the observer is eventually sent
\* STATUS_CONNECTED or STATUS_FAILED.  The start_sync() is the last order of
\* the run, so that no later order of the application comes between, and
\* runs in which the transport raised an I/O error are left out.
C35_SyncOutcomeReported ==
    (/\ fg_pc = "start_sync_set_state"
     /\ cmds = MaxCmds
     /\ running /\ ThreadAlive /\ has_gui)
        ~> (OutcomeReported \/ IoErrorEnded \/ ~running)


\* C36: the handler enters __stop_loop (and so sends Stop frames) only while
\* the state is TRANSFER, and the step of __stop_loop that sets CONNECTED
\* starts in TRANSFER.
C36_StopLoopOnlyInTransfer ==
    [][/\ (fsm_pc = "handler" /\ fsm_pc' = "stop_loop") => state = "TRANSFER"
       /\ (fsm_pc = "stop_loop" /\ state' = "CONNECTED") => state = "TRANSFER"
      ]_vars


\* send_request() has set TRANSFER and the thread has not yet sent the
\* Request frame and set the time reference
RequestNotYetSent == fg_pc = "send_request_flag" \/ flag_send_req

\* C37: while an accepted Request has not yet been sent by the thread, no
\* step of append_data or append_text changes the registry.
C37_NoIngestBeforeRequestSent ==
    [][(fsm_pc \in AppendPcs /\ channels' # channels) => ~RequestNotYetSent]_vars


\* C38: whatever frames the sync loop has read, in CONNECTED the registry
\* holds at most MAX_CHANNELS channels.
C38_AtMostMaxChannels ==
    state = "CONNECTED" => Cardinality(DOMAIN channels) <= MAX_CHANNELS


\* the stop sequence of the first transfer session has set flag_send_stop and
\* its clear_data() has returned; one Request was sent and none is pending
AfterStopSequence ==
    /\ fg_pc = "idle"
    /\ flag_send_stop
    /\ ~flag_send_req
    /\ sent["request"] = 1

\* C39: after the stop sequence of cmd mode (send_stop(), save_data(),
\* clear_data()) has returned and before another Request is accepted, no step
\* of append_data or append_text changes the registry.
C39_NoAppendAfterClear ==
    [][(AfterStopSequence /\ fsm_pc \in AppendPcs) => channels' = channels]_vars


\* C40: the observer is sent STATUS_SYNCING only by a start_sync() that read
\* IDLE and goes on to set SYNC; a start_sync() that read SYNC, CONNECTED or
\* TRANSFER sends the observer nothing.
C40_SyncingOnlyFromIdle ==
    [][(/\ Len(obs_queue') = Len(obs_queue) + 1
        /\ obs_queue'[Len(obs_queue')].order = "STATUS_SYNCING") =>
          (state = "IDLE" /\ fg_pc' = "start_sync_set_state")]_vars

====
